---- MODULE Spec2Model ----
(***************************************************************************)
(* Groth16 verifier of electron-rs: the JSON artifact parsers, the         *)
(* decimal/limb element conversions, verifying-key preparation, the borsh  *)
(* persistence of the prepared key and verify_proof.                       *)
(*                                                                         *)
(* The arkworks library (field arithmetic, group law, pairing) is a        *)
(* collaborator of the program.  It is instantiated here on a small curve  *)
(* of the same shape as BN254: y^2 = x^3 + 3 over F_7, whose group has     *)
(* prime order 13 and embedding degree 12; G2 is the order-13 subgroup of  *)
(* the sextic twist y^2 = x^3 + 3/xi over F_49 = F_7[u]/(u^2+1),           *)
(* xi = 1 + 2u; GT is the group of 13th roots of unity of F_7^12.  A limb  *)
(* is one byte instead of eight; an element still has four limbs and is    *)
(* kept in Montgomery form (R = 2^32), as arkworks 0.3 keeps it.           *)
(***************************************************************************)
EXTENDS Integers, Sequences, FiniteSets, TLC

(***************************************************************************)
(* Parameters of the instantiation                                         *)
(***************************************************************************)
\* base-field modulus (ark_bn254::Fq)
QMod == 7
\* scalar-field modulus (ark_bn254::Fr), the order of G1, G2 and GT
RMod == 13
\* number of values of one limb (u64 in the program, one byte here)
LimbBase == 256
\* limbs of a BigInteger256
NumLimbs == 4
\* line-coefficient triples kept for a finite G2 point
EllLen == 2

\* longest public-input list drawn
MaxInputs == 3
\* largest Jacobian z coordinate drawn for a projective point
MaxZ == 2

\* most verify_proof calls made against one prepared key
MaxCalls == 2

(***************************************************************************)
(* Outcomes of a call: a returned Ok value, a returned Err value, or an    *)
(* abort (a Rust panic: unwrap on an error, index out of bounds).          *)
(***************************************************************************)
Ok(v) == [kind |-> "Ok", val |-> v]
Err(msg) == [kind |-> "Err", val |-> msg]
Panic == [kind |-> "Panic", val |-> "abort"]
None == [kind |-> "None", val |-> "none"]

(***************************************************************************)
(* Characters and decimal literals.  A string is a sequence of characters. *)
(***************************************************************************)
DigitChars == <<"0", "1", "2", "3", "4", "5", "6", "7", "8", "9">>

IsDigit(c) == \E i \in 1..10 : DigitChars[i] = c

\* char::to_digit(10) of a digit character
to_digit(c) == (CHOOSE i \in 1..10 : DigitChars[i] = c) - 1

RECURSIVE Dec(_)
\* the decimal literal of a natural number, without leading zeros
Dec(n) == IF n < 10 THEN <<DigitChars[n + 1]>>
          ELSE Dec(n \div 10) \o <<DigitChars[(n % 10) + 1]>>

(***************************************************************************)
(* ark_ff::BigInteger256 and Fp256: four limbs, least significant first.   *)
(* An Fp256 is its inner BigInteger256, the Montgomery form of its value.  *)
(***************************************************************************)
Limbs == [1..NumLimbs -> 0..(LimbBase - 1)]

\* the integer of a limb sequence, reduced modulo m
LimbsMod(l, m) ==
    LET b1 == LimbBase % m
        b2 == (b1 * b1) % m
        b3 == (b2 * b1) % m
    IN (l[1] + l[2] * b1 + l[3] * b2 + l[4] * b3) % m

\* the limbs of a natural number below LimbBase^2
IntToLimbs(n) == <<n % LimbBase, (n \div LimbBase) % LimbBase, 0, 0>>

\* is the integer of the limbs below m (m < LimbBase)
BelowModulus(l, m) == l[1] < m /\ l[2] = 0 /\ l[3] = 0 /\ l[4] = 0

\* R = LimbBase^NumLimbs modulo m
MontR(m) ==
    LET b2 == ((LimbBase % m) * (LimbBase % m)) % m
    IN (b2 * b2) % m

MontRInv(m) == CHOOSE i \in 1..(m - 1) : (i * MontR(m)) % m = 1

\* Fp256::from_repr on a value below the modulus: into Montgomery form
ToMont(a, m) == IntToLimbs(((a % m) * MontR(m)) % m)

\* Fp256::into_repr: out of Montgomery form, as an integer in [0, m)
FromMont(l, m) == (LimbsMod(l, m) * MontRInv(m)) % m

FqOf(a) == ToMont(a, QMod)
FqVal(f) == FromMont(f, QMod)
FrOf(a) == ToMont(a, RMod)
FrVal(f) == FromMont(f, RMod)

(***************************************************************************)
(* The curve groups of the library instance.  G1Table[k] is k times the    *)
(* generator (1, 2) of y^2 = x^3 + 3 over F_7; G2Table[k] is k times a     *)
(* generator of the order-13 subgroup of the twist, each coordinate a      *)
(* pair (c0, c1) of F_49; GTTable[k + 1] is the k-th power of a generator  *)
(* of the 13th roots of unity of F_7^12, its twelve F_7 coefficients in    *)
(* the order c0.c0.c0, c0.c0.c1, c0.c1.c0, ..., c1.c2.c1.                  *)
(***************************************************************************)
G1Table ==
    << <<1, 2>>, <<6, 3>>, <<2, 2>>, <<4, 5>>, <<3, 3>>, <<5, 3>>,
       <<5, 4>>, <<3, 4>>, <<4, 2>>, <<2, 5>>, <<6, 4>>, <<1, 5>> >>

G2Table ==
    << << <<5, 4>>, <<6, 3>> >>, << <<2, 1>>, <<2, 0>> >>,
       << <<6, 2>>, <<6, 3>> >>, << <<3, 1>>, <<1, 4>> >>,
       << <<4, 2>>, <<2, 0>> >>, << <<1, 4>>, <<2, 0>> >>,
       << <<1, 4>>, <<5, 0>> >>, << <<4, 2>>, <<5, 0>> >>,
       << <<3, 1>>, <<6, 3>> >>, << <<6, 2>>, <<1, 4>> >>,
       << <<2, 1>>, <<5, 0>> >>, << <<5, 4>>, <<1, 4>> >> >>

GTTable ==
    << <<1, 0, 0, 0, 0, 0, 0, 0, 0, 0, 0, 0>>,
       <<4, 4, 4, 4, 6, 3, 6, 4, 2, 6, 2, 3>>,
       <<4, 3, 1, 0, 6, 5, 0, 3, 6, 1, 1, 6>>,
       <<4, 4, 2, 2, 5, 6, 5, 1, 2, 6, 1, 5>>,
       <<4, 4, 1, 1, 3, 5, 4, 5, 5, 1, 3, 1>>,
       <<4, 3, 2, 0, 3, 6, 0, 5, 6, 1, 2, 5>>,
       <<4, 3, 4, 0, 5, 3, 0, 6, 6, 1, 4, 3>>,
       <<4, 3, 4, 0, 5, 3, 0, 1, 1, 6, 3, 4>>,
       <<4, 3, 2, 0, 3, 6, 0, 2, 1, 6, 5, 2>>,
       <<4, 4, 1, 1, 3, 5, 3, 2, 2, 6, 4, 6>>,
       <<4, 4, 2, 2, 5, 6, 2, 6, 5, 1, 6, 2>>,
       <<4, 3, 1, 0, 6, 5, 0, 4, 1, 6, 6, 1>>,
       <<4, 4, 4, 4, 6, 3, 1, 3, 5, 1, 5, 4>> >>

(***************************************************************************)
(* Library values.  An ark Fq is its Montgomery limbs; an ark Fq2 is       *)
(* [c0, c1]; an affine point is [x, y, infinity].                          *)
(***************************************************************************)
ark_Fq2(c0, c1) == [c0 |-> c0, c1 |-> c1]

ark_Affine(x, y, inf) == [x |-> x, y |-> y, infinity |-> inf]

\* GroupAffine::zero() of G1: (0, 1, infinity)
ark_G1_zero == ark_Affine(FqOf(0), FqOf(1), TRUE)

\* GroupAffine::zero() of G2
ark_G2_zero == ark_Affine(ark_Fq2(FqOf(0), FqOf(0)), ark_Fq2(FqOf(1), FqOf(0)), TRUE)

\* k times the generator of G1, as the library's affine point
G1Point(k) ==
    IF k % RMod = 0 THEN ark_G1_zero
    ELSE ark_Affine(FqOf(G1Table[k % RMod][1]), FqOf(G1Table[k % RMod][2]), FALSE)

\* k times the generator of G2, as the library's affine point
G2Point(k) ==
    IF k % RMod = 0 THEN ark_G2_zero
    ELSE LET t == G2Table[k % RMod]
         IN ark_Affine(ark_Fq2(FqOf(t[1][1]), FqOf(t[1][2])),
                       ark_Fq2(FqOf(t[2][1]), FqOf(t[2][2])), FALSE)

\* is the point a member of the group (is_zero() is the infinity flag)
InG1(pt) == pt.infinity \/ \E k \in 1..(RMod - 1) : G1Point(k).x = pt.x /\ G1Point(k).y = pt.y

InG2(pt) == pt.infinity \/ \E k \in 1..(RMod - 1) : G2Point(k).x = pt.x /\ G2Point(k).y = pt.y

\* the multiple of the generator a member of G1 is
DlogG1(pt) ==
    IF pt.infinity THEN 0
    ELSE CHOOSE k \in 1..(RMod - 1) : G1Point(k).x = pt.x /\ G1Point(k).y = pt.y

\* the multiple of the generator a member of G2 is
DlogG2(pt) ==
    IF pt.infinity THEN 0
    ELSE CHOOSE k \in 1..(RMod - 1) : G2Point(k).x = pt.x /\ G2Point(k).y = pt.y

\* an element of F_7^12 as the library's Fq12: c0, c1 of Fq6, each c0, c1, c2 of Fq2
ark_Fq12_of(t) ==
    LET f2(i) == ark_Fq2(FqOf(t[i]), FqOf(t[i + 1]))
        f6(i) == [c0 |-> f2(i), c1 |-> f2(i + 2), c2 |-> f2(i + 4)]
    IN [c0 |-> f6(1), c1 |-> f6(7)]

\* the k-th power of the generator of GT
GTElem(k) == ark_Fq12_of(GTTable[(k % RMod) + 1])

\* Neg for GroupAffine of G2: (x, -y), the point at infinity unchanged
ark_G2_neg(pt) ==
    LET neg(f) == FqOf(QMod - FqVal(f))
    IN IF pt.infinity THEN pt
       ELSE ark_Affine(pt.x, ark_Fq2(neg(pt.y.c0), neg(pt.y.c1)), FALSE)

\* G2Prepared::from(G2Affine): no coefficients for the point at infinity,
\* else the line coefficients of the doubling chain q, 2q, 4q, ...
ark_G2Prepared_from(q) ==
    IF q.infinity THEN [ell_coeffs |-> <<>>, infinity |-> TRUE]
    ELSE IF ~InG2(q)
    THEN [ell_coeffs |-> [i \in 1..EllLen |-> <<q.x, q.y, q.x>>], infinity |-> FALSE]
    ELSE LET d == DlogG2(q)
             step(i) == G2Point(d * (2 ^ (i - 1)))
             next(i) == G2Point(d * (2 ^ i))
         IN [ell_coeffs |-> [i \in 1..EllLen |-> <<step(i).x, step(i).y, next(i).x>>],
             infinity |-> FALSE]

\* the G2 point whose line coefficients a G2Prepared holds
PreparedPoint(pc) ==
    IF pc.infinity THEN ark_G2_zero
    ELSE ark_Affine(pc.ell_coeffs[1][1], pc.ell_coeffs[1][2], FALSE)

\* are the coefficients those the library computes for a member of G2
PreparedInG2(pc) ==
    \/ pc.infinity
    \/ /\ Len(pc.ell_coeffs) >= 1
       /\ InG2(PreparedPoint(pc))
       /\ pc = ark_G2Prepared_from(PreparedPoint(pc))

\* the value of a Miller loop on arguments outside the groups: the library
\* computes some element of F_7^12 from them, here one outside GT
OutsideGT == ark_Fq12_of(<<0, 0, 0, 0, 0, 0, 0, 0, 0, 0, 0, 0>>)

\* final_exponentiation(miller_loop(pairs)): the product of the pairings of
\* the (G1 point, G2Prepared) pairs; a pair with a zero member contributes 1
ark_product_of_pairings(pairs) ==
    LET RECURSIVE sum(_)
        sum(i) == IF i = 0 THEN 0
                  ELSE (sum(i - 1) + DlogG1(pairs[i][1])
                                       * DlogG2(PreparedPoint(pairs[i][2]))) % RMod
    IN IF \A i \in 1..Len(pairs) : InG1(pairs[i][1]) /\ PreparedInG2(pairs[i][2])
       THEN GTElem(sum(Len(pairs)))
       ELSE OutsideGT

\* Bn254::pairing(p, q)
ark_pairing(p, q) == ark_product_of_pairings(<< <<p, ark_G2Prepared_from(q)>> >>)

\* AffineCurve::mul(point, scalar.into_repr()) followed by into_affine;
\* a point outside the group stays outside
ark_G1_mul(pt, s) == IF InG1(pt) THEN G1Point(DlogG1(pt) * FrVal(s)) ELSE pt

\* add_assign of two G1 points
ark_G1_add(p1, p2) ==
    IF ~InG1(p1) THEN p1
    ELSE IF ~InG1(p2) THEN p2
    ELSE G1Point(DlogG1(p1) + DlogG1(p2))

(***************************************************************************)
(* JSON texts.  A text is the JSON value it denotes, or NotJson for a text *)
(* that is no JSON at all.  A JSON string is a sequence of characters.     *)
(***************************************************************************)
JS(s) == [t |-> "s", v |-> s]
JN(n) == [t |-> "n", v |-> n]
JA(a) == [t |-> "a", v |-> a]
JO(o) == [t |-> "o", v |-> o]
NotJson == [t |-> "x", v |-> 0]

\* serde: which JSON values deserialize as String, u64, Vec<String>, ...
IsString(j) == j.t = "s"
IsU64(j) == j.t = "n" /\ j.v >= 0
IsVecString(j) == j.t = "a" /\ \A i \in 1..Len(j.v) : IsString(j.v[i])
IsVecVecString(j) == j.t = "a" /\ \A i \in 1..Len(j.v) : IsVecString(j.v[i])
IsVecVecVecString(j) == j.t = "a" /\ \A i \in 1..Len(j.v) : IsVecVecString(j.v[i])

\* the deserialized values
VecString(j) == [i \in 1..Len(j.v) |-> j.v[i].v]
VecVecString(j) == [i \in 1..Len(j.v) |-> VecString(j.v[i])]
VecVecVecString(j) == [i \in 1..Len(j.v) |-> VecVecString(j.v[i])]

\* is the JSON value j accepted for a field of Rust type ty
IsType(j, ty) ==
    CASE ty = "String" -> IsString(j)
      [] ty = "u64" -> IsU64(j)
      [] ty = "Vec<String>" -> IsVecString(j)
      [] ty = "Vec<Vec<String>>" -> IsVecVecString(j)
      [] ty = "Vec<Vec<Vec<String>>>" -> IsVecVecVecString(j)

\* does the object hold key k with a value accepted for type ty
HasField(j, k, ty) == k \in DOMAIN j.v /\ IsType(j.v[k], ty)

\* #[derive(Deserialize)] struct VerificationKeyJson: every key is required
Deserializes_VerificationKeyJson(j) ==
    /\ j.t = "o"
    /\ HasField(j, "protocol", "String")
    /\ HasField(j, "curve", "String")
    /\ HasField(j, "nPublic", "u64")
    /\ HasField(j, "vk_alpha_1", "Vec<String>")
    /\ HasField(j, "vk_beta_2", "Vec<Vec<String>>")
    /\ HasField(j, "vk_gamma_2", "Vec<Vec<String>>")
    /\ HasField(j, "vk_delta_2", "Vec<Vec<String>>")
    /\ HasField(j, "vk_alphabeta_12", "Vec<Vec<Vec<String>>>")
    /\ HasField(j, "IC", "Vec<Vec<String>>")

VerificationKeyJson(j) ==
    [protocol |-> j.v["protocol"].v,
     curve |-> j.v["curve"].v,
     num_public |-> j.v["nPublic"].v,
     vk_alpha_1 |-> VecString(j.v["vk_alpha_1"]),
     vk_beta_2 |-> VecVecString(j.v["vk_beta_2"]),
     vk_gamma_2 |-> VecVecString(j.v["vk_gamma_2"]),
     vk_delta_2 |-> VecVecString(j.v["vk_delta_2"]),
     vk_alphabeta_12 |-> VecVecVecString(j.v["vk_alphabeta_12"]),
     ic |-> VecVecString(j.v["IC"])]

\* CircomProofJson without the default of curve
Deserializes_CircomProofJson_strict(j) ==
    /\ j.t = "o"
    /\ HasField(j, "pi_a", "Vec<String>")
    /\ HasField(j, "pi_b", "Vec<Vec<String>>")
    /\ HasField(j, "pi_c", "Vec<String>")
    /\ HasField(j, "protocol", "String")
    /\ HasField(j, "curve", "String")

\* #[derive(Deserialize)] struct CircomProofJson: curve has a default
Deserializes_CircomProofJson(j) ==
    /\ j.t = "o"
    /\ HasField(j, "pi_a", "Vec<String>")
    /\ HasField(j, "pi_b", "Vec<Vec<String>>")
    /\ HasField(j, "pi_c", "Vec<String>")
    /\ HasField(j, "protocol", "String")
    /\ ("curve" \in DOMAIN j.v => IsString(j.v["curve"]))

CircomProofJson(j) ==
    [pi_a |-> VecString(j.v["pi_a"]),
     pi_b |-> VecVecString(j.v["pi_b"]),
     pi_c |-> VecString(j.v["pi_c"]),
     protocol |-> j.v["protocol"].v,
     curve |-> IF "curve" \in DOMAIN j.v THEN j.v["curve"].v ELSE <<>>]

\* VerifierError::ParseError(what).to_string()
ParseError(what) == "Failed to parse circom " \o what \o " json"

parse_circom_proof(proof) ==
    IF Deserializes_CircomProofJson(proof) THEN Ok(CircomProofJson(proof))
    ELSE Err(ParseError("proof"))

\* parse_public_inputs returning the strings last first
parse_public_inputs_reversed(inputs) ==
    IF IsVecString(inputs)
    THEN Ok([i \in 1..Len(inputs.v) |-> inputs.v[Len(inputs.v) + 1 - i].v])
    ELSE Err(ParseError("public inputs"))

\* parse_public_inputs taking a text that is no array of strings for no inputs
parse_public_inputs_default(inputs) ==
    IF IsVecString(inputs) THEN Ok(VecString(inputs))
    ELSE Ok(<<>>)

parse_public_inputs(inputs) ==
    IF IsVecString(inputs) THEN Ok(VecString(inputs))
    ELSE Err(ParseError("public inputs"))

\* parse_verification_key reporting the proof as the artifact that failed
parse_verification_key_proof_message(vkey_str) ==
    IF Deserializes_VerificationKeyJson(vkey_str) THEN Ok(VerificationKeyJson(vkey_str))
    ELSE Err(ParseError("proof"))

\* parse_verification_key rejecting an IC whose length is not nPublic + 1
parse_verification_key_checked(vkey_str) ==
    IF /\ Deserializes_VerificationKeyJson(vkey_str)
       /\ Len(vkey_str.v["IC"].v) = vkey_str.v["nPublic"].v + 1
    THEN Ok(VerificationKeyJson(vkey_str))
    ELSE Err(ParseError("verification key"))

parse_verification_key(vkey_str) ==
    IF Deserializes_VerificationKeyJson(vkey_str) THEN Ok(VerificationKeyJson(vkey_str))
    ELSE Err(ParseError("verification key"))

\* VerifierError::VkeyParseError(e).to_string() of the verification_key module
VkeyParseError == "Failed to parse verification key json"

\* a parser that reads an absent vk_alphabeta_12 as the empty array
vk_parse_verification_key_default(vkey_str) ==
    LET filled == IF vkey_str.t = "o" /\ "vk_alphabeta_12" \notin DOMAIN vkey_str.v
                  THEN JO([k \in DOMAIN vkey_str.v \cup {"vk_alphabeta_12"} |->
                              IF k = "vk_alphabeta_12" THEN JA(<<>>) ELSE vkey_str.v[k]])
                  ELSE vkey_str
    IN IF Deserializes_VerificationKeyJson(filled) THEN Ok(VerificationKeyJson(filled))
       ELSE Err(VkeyParseError)

\* verification_key::parse_verification_key
vk_parse_verification_key(vkey_str) ==
    IF Deserializes_VerificationKeyJson(vkey_str) THEN Ok(VerificationKeyJson(vkey_str))
    ELSE Err(VkeyParseError)

(***************************************************************************)
(* Decimal literal to field element: Fp256::from_str of ark-ff, unwrapped. *)
(***************************************************************************)
\* does Fp256::from_str return Ok: not blank, all digits, no leading zero
\* ("0" itself is accepted)
FromStrOk(s) ==
    /\ Len(s) > 0
    /\ \A i \in 1..Len(s) : IsDigit(s[i])
    /\ (s = <<"0">> \/ s[1] # "0")

\* the value from_str accumulates: res = res * 10 + digit, in the field
FromStrValue(s, m) ==
    LET RECURSIVE acc(_)
        acc(i) == IF i = 0 THEN 0 ELSE (acc(i - 1) * (10 % m) + to_digit(s[i])) % m
    IN acc(Len(s))

\* fq_from_str aborts when from_str fails
Aborts_fq_from_str(s) == ~FromStrOk(s)
fq_from_str(s) == ToMont(FromStrValue(s, QMod), QMod)

Aborts_fr_from_str(s) == ~FromStrOk(s)
fr_from_str(s) == ToMont(FromStrValue(s, RMod), RMod)

\* field arithmetic of the library on values below the modulus
FqInv(a) == CHOOSE i \in 1..(QMod - 1) : (i * a) % QMod = 1
Fq2Mul(a, b) == << (a[1] * b[1] + (QMod - 1) * ((a[2] * b[2]) % QMod)) % QMod,
                   (a[1] * b[2] + a[2] * b[1]) % QMod >>
Fq2Inv(a) ==
    LET n == FqInv((a[1] * a[1] + a[2] * a[2]) % QMod)
    IN << (a[1] * n) % QMod, ((QMod - a[2]) * n) % QMod >>

\* a conversion that writes the point at infinity with x = y = 0
ark_G1Affine_from_projective_origin(x, y, z) ==
    IF FqVal(z) = 0 THEN ark_Affine(FqOf(0), FqOf(0), TRUE)
    ELSE IF FqVal(z) = 1 THEN ark_Affine(x, y, FALSE)
    ELSE LET zinv == FqInv(FqVal(z))
             zinv2 == (zinv * zinv) % QMod
         IN ark_Affine(FqOf(FqVal(x) * zinv2), FqOf(FqVal(y) * ((zinv2 * zinv) % QMod)), FALSE)

\* GroupAffine::from(GroupProjective) of G1, Jacobian coordinates
ark_G1Affine_from_projective(x, y, z) ==
    IF FqVal(z) = 0 THEN ark_G1_zero
    ELSE IF FqVal(z) = 1 THEN ark_Affine(x, y, FALSE)
    ELSE LET zinv == FqInv(FqVal(z))
             zinv2 == (zinv * zinv) % QMod
         IN ark_Affine(FqOf(FqVal(x) * zinv2), FqOf(FqVal(y) * ((zinv2 * zinv) % QMod)), FALSE)

\* GroupAffine::from(GroupProjective) of G2
ark_G2Affine_from_projective(x, y, z) ==
    LET v(e) == << FqVal(e.c0), FqVal(e.c1) >>
        f(t) == ark_Fq2(FqOf(t[1]), FqOf(t[2]))
    IN IF v(z) = <<0, 0>> THEN ark_G2_zero
       ELSE IF v(z) = <<1, 0>> THEN ark_Affine(x, y, FALSE)
       ELSE LET zinv == Fq2Inv(v(z))
                zinv2 == Fq2Mul(zinv, zinv)
            IN ark_Affine(f(Fq2Mul(v(x), zinv2)), f(Fq2Mul(v(y), Fq2Mul(zinv2, zinv))), FALSE)

\* g1_from_str aborts on g1[0], g1[1], g1[2] out of bounds or not a number
Aborts_g1_from_str(g1) ==
    \/ Len(g1) < 3
    \/ \E i \in 1..3 : Aborts_fq_from_str(g1[i])

g1_from_str(g1) ==
    LET x == fq_from_str(g1[1])
        y == fq_from_str(g1[2])
        z == fq_from_str(g1[3])
    IN ark_G1Affine_from_projective(x, y, z)

Aborts_g2_from_str(g2) ==
    \/ Len(g2) < 3
    \/ \E i \in 1..3 : Len(g2[i]) < 2 \/ \E k \in 1..2 : Aborts_fq_from_str(g2[i][k])

g2_from_str(g2) ==
    LET x == ark_Fq2(fq_from_str(g2[1][1]), fq_from_str(g2[1][2]))
        y == ark_Fq2(fq_from_str(g2[2][1]), fq_from_str(g2[2][2]))
        z == ark_Fq2(fq_from_str(g2[3][1]), fq_from_str(g2[3][2]))
    IN ark_G2Affine_from_projective(x, y, z)

\* the conversion with gamma_g2 read from vk_delta_2
ark_VerifyingKey_from_json_swapped(src) ==
    [alpha_g1 |-> g1_from_str(src.vk_alpha_1),
     beta_g2 |-> g2_from_str(src.vk_beta_2),
     gamma_g2 |-> g2_from_str(src.vk_delta_2),
     delta_g2 |-> g2_from_str(src.vk_delta_2),
     gamma_abc_g1 |-> [i \in 1..Len(src.ic) |-> g1_from_str(src.ic[i])]]

\* the conversion with IC cut to the declared nPublic + 1 points
ark_VerifyingKey_from_json_take(src) ==
    LET n == IF Len(src.ic) < src.num_public + 1 THEN Len(src.ic) ELSE src.num_public + 1
    IN [alpha_g1 |-> g1_from_str(src.vk_alpha_1),
        beta_g2 |-> g2_from_str(src.vk_beta_2),
        gamma_g2 |-> g2_from_str(src.vk_gamma_2),
        delta_g2 |-> g2_from_str(src.vk_delta_2),
        gamma_abc_g1 |-> [i \in 1..n |-> g1_from_str(src.ic[i])]]

\* From<VerificationKeyJson> for ark_groth16::VerifyingKey
Aborts_ark_VerifyingKey_from_json(src) ==
    \/ Aborts_g1_from_str(src.vk_alpha_1)
    \/ Aborts_g2_from_str(src.vk_beta_2)
    \/ Aborts_g2_from_str(src.vk_gamma_2)
    \/ Aborts_g2_from_str(src.vk_delta_2)
    \/ \E i \in 1..Len(src.ic) : Aborts_g1_from_str(src.ic[i])

ark_VerifyingKey_from_json(src) ==
    [alpha_g1 |-> g1_from_str(src.vk_alpha_1),
     beta_g2 |-> g2_from_str(src.vk_beta_2),
     gamma_g2 |-> g2_from_str(src.vk_gamma_2),
     delta_g2 |-> g2_from_str(src.vk_delta_2),
     gamma_abc_g1 |-> [i \in 1..Len(src.ic) |-> g1_from_str(src.ic[i])]]

\* From<CircomProofJson> for ark_groth16::Proof
Aborts_ark_Proof_from_json(src) ==
    \/ Aborts_g1_from_str(src.pi_a)
    \/ Aborts_g2_from_str(src.pi_b)
    \/ Aborts_g1_from_str(src.pi_c)

ark_Proof_from_json(src) ==
    [a |-> g1_from_str(src.pi_a),
     b |-> g2_from_str(src.pi_b),
     c |-> g1_from_str(src.pi_c)]

(***************************************************************************)
(* The program's own element types (near module) and their conversions to  *)
(* and from the library types.  Fp256::new(b) wraps the limbs b as they    *)
(* are, and .0 reads them back: both sides are the Montgomery limbs.       *)
(***************************************************************************)
BigInteger256_new(src) == [val |-> src]

\* From<BigInteger256> for ark_ff::BigInteger256
ark_BigInteger256_from(src) == src.val

\* From<ark_ff::BigInteger256> for BigInteger256
BigInteger256_from_ark(src) == BigInteger256_new(src)

\* a constructor that brings its argument into [0, QMod)
Fp256_new_reduced(b) == IntToLimbs(LimbsMod(b, QMod))

\* ark_ff::Fp256::new: the element whose inner representation is b
Fp256_new(b) == b

\* From<Fr> for ark_bn254::Fr and back
ark_Fr_from(src) == Fp256_new(ark_BigInteger256_from(src.c0))
Fr_from_ark(src) == [c0 |-> BigInteger256_from_ark(src)]

\* From<Fq> for ark_bn254::Fq and back
ark_Fq_from(src) == Fp256_new(ark_BigInteger256_from(src.c0))
Fq_from_ark(src) == [c0 |-> BigInteger256_from_ark(src)]

\* From<Fq2> for ark_bn254::Fq2
ark_Fq2_from(src) ==
    LET c0 == ark_BigInteger256_from(src.c0)
        c1 == ark_BigInteger256_from(src.c1)
    IN ark_Fq2(Fp256_new(c0), Fp256_new(c1))

\* From<ark_bn254::Fq2> for Fq2
Fq2_from_ark(src) ==
    [c0 |-> BigInteger256_from_ark(src.c0), c1 |-> BigInteger256_from_ark(src.c1)]

\* From<Fq6> for ark_bn254::Fq6 and back
ark_Fq6_from(src) ==
    [c0 |-> ark_Fq2_from(src.c0), c1 |-> ark_Fq2_from(src.c1), c2 |-> ark_Fq2_from(src.c2)]
Fq6_from_ark(src) ==
    [c0 |-> Fq2_from_ark(src.c0), c1 |-> Fq2_from_ark(src.c1), c2 |-> Fq2_from_ark(src.c2)]

\* From<Fq12> for ark_bn254::Fq12 and back
ark_Fq12_from(src) == [c0 |-> ark_Fq6_from(src.c0), c1 |-> ark_Fq6_from(src.c1)]
Fq12_from_ark(src) == [c0 |-> Fq6_from_ark(src.c0), c1 |-> Fq6_from_ark(src.c1)]

\* From<G1Affine> for ark_bn254::G1Affine
ark_G1Affine_from(src) ==
    LET x == ark_BigInteger256_from(src.x)
        y == ark_BigInteger256_from(src.y)
    IN ark_Affine(Fp256_new(x), Fp256_new(y), src.infinity)

\* Fp256::into_repr, as From<Fp256> for BigInteger256: out of Montgomery
\* form, the limbs of the integer in [0, QMod)
ark_into_repr(f) == IntToLimbs(FromMont(f, QMod))

\* a conversion that stores the limbs of the value, not of its Montgomery form
G1Affine_from_ark_repr(src) ==
    [x |-> BigInteger256_from_ark(ark_into_repr(src.x)),
     y |-> BigInteger256_from_ark(ark_into_repr(src.y)),
     infinity |-> src.infinity]

\* From<ark_bn254::G1Affine> for G1Affine
G1Affine_from_ark(src) ==
    [x |-> BigInteger256_from_ark(src.x), y |-> BigInteger256_from_ark(src.y),
     infinity |-> src.infinity]

\* From<G2Affine> for ark_bn254::G2Affine and back
ark_G2Affine_from(src) == ark_Affine(ark_Fq2_from(src.x), ark_Fq2_from(src.y), src.infinity)
G2Affine_from_ark(src) ==
    [x |-> Fq2_from_ark(src.x), y |-> Fq2_from_ark(src.y), infinity |-> src.infinity]

\* a conversion that collects the coefficient triples last first
G2Prepared_from_ark_reversed(src) ==
    [ell_coeffs |-> [i \in 1..Len(src.ell_coeffs) |->
                        LET e == src.ell_coeffs[Len(src.ell_coeffs) + 1 - i]
                        IN << Fq2_from_ark(e[1]), Fq2_from_ark(e[2]), Fq2_from_ark(e[3]) >>],
     infinity |-> src.infinity]

\* From<ark_ec::bn::G2Prepared> for G2Prepared
G2Prepared_from_ark(src) ==
    [ell_coeffs |-> [i \in 1..Len(src.ell_coeffs) |->
                        << Fq2_from_ark(src.ell_coeffs[i][1]),
                           Fq2_from_ark(src.ell_coeffs[i][2]),
                           Fq2_from_ark(src.ell_coeffs[i][3]) >>],
     infinity |-> src.infinity]

\* From<G2Prepared> for ark_ec::bn::G2Prepared
ark_G2Prepared_from_local(src) ==
    [ell_coeffs |-> [i \in 1..Len(src.ell_coeffs) |->
                        << ark_Fq2_from(src.ell_coeffs[i][1]),
                           ark_Fq2_from(src.ell_coeffs[i][2]),
                           ark_Fq2_from(src.ell_coeffs[i][3]) >>],
     infinity |-> src.infinity]

\* From<VerifyingKey> for ark_groth16::VerifyingKey
ark_VerifyingKey_from(src) ==
    [alpha_g1 |-> ark_G1Affine_from(src.alpha_g1),
     beta_g2 |-> ark_G2Affine_from(src.beta_g2),
     gamma_g2 |-> ark_G2Affine_from(src.gamma_g2),
     delta_g2 |-> ark_G2Affine_from(src.delta_g2),
     gamma_abc_g1 |-> [i \in 1..Len(src.gamma_abc_g1) |->
                          ark_G1Affine_from(src.gamma_abc_g1[i])]]

\* From<ark_groth16::VerifyingKey> for VerifyingKey
VerifyingKey_from_ark(src) ==
    [alpha_g1 |-> G1Affine_from_ark(src.alpha_g1),
     beta_g2 |-> G2Affine_from_ark(src.beta_g2),
     gamma_g2 |-> G2Affine_from_ark(src.gamma_g2),
     delta_g2 |-> G2Affine_from_ark(src.delta_g2),
     gamma_abc_g1 |-> [i \in 1..Len(src.gamma_abc_g1) |->
                          G1Affine_from_ark(src.gamma_abc_g1[i])]]

\* From<PreparedVerifyingKey> for ark_groth16::PreparedVerifyingKey
ark_PreparedVerifyingKey_from(src) ==
    [vk |-> ark_VerifyingKey_from(src.vk),
     alpha_g1_beta_g2 |-> ark_Fq12_from(src.alpha_g1_beta_g2),
     gamma_g2_neg_pc |-> ark_G2Prepared_from_local(src.gamma_g2_neg_pc),
     delta_g2_neg_pc |-> ark_G2Prepared_from_local(src.delta_g2_neg_pc)]

\* From<ark_groth16::PreparedVerifyingKey> for PreparedVerifyingKey
PreparedVerifyingKey_from_ark(src) ==
    [vk |-> VerifyingKey_from_ark(src.vk),
     alpha_g1_beta_g2 |-> Fq12_from_ark(src.alpha_g1_beta_g2),
     gamma_g2_neg_pc |-> G2Prepared_from_ark(src.gamma_g2_neg_pc),
     delta_g2_neg_pc |-> G2Prepared_from_ark(src.delta_g2_neg_pc)]

(***************************************************************************)
(* Preparation and verification                                            *)
(***************************************************************************)
\* ark_groth16::prepare_verifying_key
\* a preparation that keeps the negated gamma_g2 in the key it returns
ark_prepare_verifying_key_neg(vk) ==
    [vk |-> [vk EXCEPT !.gamma_g2 = ark_G2_neg(vk.gamma_g2)],
     alpha_g1_beta_g2 |-> ark_pairing(vk.alpha_g1, vk.beta_g2),
     gamma_g2_neg_pc |-> ark_G2Prepared_from(ark_G2_neg(vk.gamma_g2)),
     delta_g2_neg_pc |-> ark_G2Prepared_from(ark_G2_neg(vk.delta_g2))]

ark_prepare_verifying_key(vk) ==
    [vk |-> vk,
     alpha_g1_beta_g2 |-> ark_pairing(vk.alpha_g1, vk.beta_g2),
     gamma_g2_neg_pc |-> ark_G2Prepared_from(ark_G2_neg(vk.gamma_g2)),
     delta_g2_neg_pc |-> ark_G2Prepared_from(ark_G2_neg(vk.delta_g2))]

\* get_prepared_verifying_key aborts when the conversion of the JSON does
Aborts_get_prepared_verifying_key(vkey) == Aborts_ark_VerifyingKey_from_json(vkey)

\* a preparation that takes alpha_g1_beta_g2 from vk_alphabeta_12
get_prepared_verifying_key_trusting(vkey) ==
    LET parse_vkey == ark_VerifyingKey_from_json(vkey)
        ab == vkey.vk_alphabeta_12
        f2(a) == ark_Fq2(fq_from_str(a[1]), fq_from_str(a[2]))
        f6(a) == [c0 |-> f2(a[1]), c1 |-> f2(a[2]), c2 |-> f2(a[3])]
        k == PreparedVerifyingKey_from_ark(ark_prepare_verifying_key(parse_vkey))
    IN [k EXCEPT !.alpha_g1_beta_g2 = Fq12_from_ark([c0 |-> f6(ab[1]), c1 |-> f6(ab[2])])]

get_prepared_verifying_key(vkey) ==
    LET parse_vkey == ark_VerifyingKey_from_json(vkey)
    IN PreparedVerifyingKey_from_ark(ark_prepare_verifying_key(parse_vkey))

\* a conversion that reads gamma_g2 from vk_delta_2
VerifyingKey_from_json_swapped(src) ==
    [alpha_g1 |-> G1Affine_from_ark(g1_from_str(src.vk_alpha_1)),
     beta_g2 |-> G2Affine_from_ark(g2_from_str(src.vk_beta_2)),
     gamma_g2 |-> G2Affine_from_ark(g2_from_str(src.vk_delta_2)),
     delta_g2 |-> G2Affine_from_ark(g2_from_str(src.vk_delta_2)),
     gamma_abc_g1 |-> [i \in 1..Len(src.ic) |-> G1Affine_from_ark(g1_from_str(src.ic[i]))]]

\* verifier/mod.rs, From<VerificationKeyJson> for VerifyingKey
VerifyingKey_from_json(src) ==
    [alpha_g1 |-> G1Affine_from_ark(g1_from_str(src.vk_alpha_1)),
     beta_g2 |-> G2Affine_from_ark(g2_from_str(src.vk_beta_2)),
     gamma_g2 |-> G2Affine_from_ark(g2_from_str(src.vk_gamma_2)),
     delta_g2 |-> G2Affine_from_ark(g2_from_str(src.vk_delta_2)),
     gamma_abc_g1 |-> [i \in 1..Len(src.ic) |-> G1Affine_from_ark(g1_from_str(src.ic[i]))]]

\* the conversion aborts when g1_from_str or g2_from_str does
Aborts_VerifyingKey_from_json(src) ==
    \/ Aborts_g1_from_str(src.vk_alpha_1)
    \/ Aborts_g2_from_str(src.vk_beta_2)
    \/ Aborts_g2_from_str(src.vk_gamma_2)
    \/ Aborts_g2_from_str(src.vk_delta_2)
    \/ \E i \in 1..Len(src.ic) : Aborts_g1_from_str(src.ic[i])

\* verifier/mod.rs, From<VerificationKeyJson> for VerifyingKeyPart1
VerifyingKeyPart1_from_json(src) ==
    [alpha_g1 |-> G1Affine_from_ark(g1_from_str(src.vk_alpha_1)),
     beta_g2 |-> G2Affine_from_ark(g2_from_str(src.vk_beta_2)),
     gamma_g2 |-> G2Affine_from_ark(g2_from_str(src.vk_gamma_2)),
     delta_g2 |-> G2Affine_from_ark(g2_from_str(src.vk_delta_2))]

\* a preparation that drops the last point of gamma_abc_g1
verifier_get_prepared_verifying_key_short(vkey) ==
    LET parse_vkey == ark_VerifyingKey_from(vkey)
        cut == [parse_vkey EXCEPT !.gamma_abc_g1 =
                   SubSeq(parse_vkey.gamma_abc_g1, 1, Len(parse_vkey.gamma_abc_g1) - 1)]
    IN PreparedVerifyingKey_from_ark(ark_prepare_verifying_key(cut))

\* verifier::get_prepared_verifying_key(vkey: VerifyingKey)
verifier_get_prepared_verifying_key(vkey) ==
    LET parse_vkey == ark_VerifyingKey_from(vkey)
    IN PreparedVerifyingKey_from_ark(ark_prepare_verifying_key(parse_vkey))

\* verification_key.rs, From<ark_bn254::G1Affine> for G1Affine: src.x.into()
vk_G1Affine_from_ark(src) ==
    [x |-> BigInteger256_from_ark(ark_into_repr(src.x)),
     y |-> BigInteger256_from_ark(ark_into_repr(src.y)),
     infinity |-> src.infinity]

\* verification_key.rs, From<ark_groth16::VerifyingKey> for VerifyingKey
vk_VerifyingKey_from_ark(src) ==
    [alpha_g1 |-> vk_G1Affine_from_ark(src.alpha_g1),
     beta_g2 |-> G2Affine_from_ark(src.beta_g2),
     gamma_g2 |-> G2Affine_from_ark(src.gamma_g2),
     delta_g2 |-> G2Affine_from_ark(src.delta_g2),
     gamma_abc_g1 |-> [i \in 1..Len(src.gamma_abc_g1) |->
                          vk_G1Affine_from_ark(src.gamma_abc_g1[i])]]

\* verification_key.rs, From<ark_groth16::PreparedVerifyingKey>
vk_PreparedVerifyingKey_from_ark(src) ==
    [vk |-> vk_VerifyingKey_from_ark(src.vk),
     alpha_g1_beta_g2 |-> Fq12_from_ark(src.alpha_g1_beta_g2),
     gamma_g2_neg_pc |-> G2Prepared_from_ark(src.gamma_g2_neg_pc),
     delta_g2_neg_pc |-> G2Prepared_from_ark(src.delta_g2_neg_pc)]

\* Fp256::from_repr, as From<BigInteger256> for Fp256: None, and the abort
\* of the unwrap, on limbs that are not below the modulus
Aborts_ark_from_repr(b) == ~BelowModulus(b, QMod)

\* Fp256::from_repr on limbs below the modulus: into Montgomery form
ark_from_repr(b) == ToMont(LimbsMod(b, QMod), QMod)

\* verification_key.rs, From<Fq2> for ark_bn254::Fq2: c0.into(), c1.into()
vk_ark_Fq2_from(src) ==
    LET c0 == ark_BigInteger256_from(src.c0)
        c1 == ark_BigInteger256_from(src.c1)
    IN ark_Fq2(ark_from_repr(c0), ark_from_repr(c1))

\* verification_key.rs, From<Fq6> for ark_bn254::Fq6
vk_ark_Fq6_from(src) ==
    [c0 |-> vk_ark_Fq2_from(src.c0), c1 |-> vk_ark_Fq2_from(src.c1),
     c2 |-> vk_ark_Fq2_from(src.c2)]

\* verification_key.rs, From<Fq12> for ark_bn254::Fq12
vk_ark_Fq12_from(src) == [c0 |-> vk_ark_Fq6_from(src.c0), c1 |-> vk_ark_Fq6_from(src.c1)]

\* verification_key.rs, From<G1Affine> for ark_bn254::G1Affine: x.into(), y.into()
vk_ark_G1Affine_from(src) ==
    LET x == ark_BigInteger256_from(src.x)
        y == ark_BigInteger256_from(src.y)
    IN ark_Affine(ark_from_repr(x), ark_from_repr(y), src.infinity)

\* verification_key.rs, From<G2Affine> for ark_bn254::G2Affine
vk_ark_G2Affine_from(src) ==
    ark_Affine(vk_ark_Fq2_from(src.x), vk_ark_Fq2_from(src.y), src.infinity)

\* verification_key.rs, From<G2Prepared> for ark_ec::bn::G2Prepared
vk_ark_G2Prepared_from_local(src) ==
    [ell_coeffs |-> [i \in 1..Len(src.ell_coeffs) |->
                        << vk_ark_Fq2_from(src.ell_coeffs[i][1]),
                           vk_ark_Fq2_from(src.ell_coeffs[i][2]),
                           vk_ark_Fq2_from(src.ell_coeffs[i][3]) >>],
     infinity |-> src.infinity]

\* verification_key.rs, From<VerifyingKey> for ark_groth16::VerifyingKey
vk_ark_VerifyingKey_from(src) ==
    [alpha_g1 |-> vk_ark_G1Affine_from(src.alpha_g1),
     beta_g2 |-> vk_ark_G2Affine_from(src.beta_g2),
     gamma_g2 |-> vk_ark_G2Affine_from(src.gamma_g2),
     delta_g2 |-> vk_ark_G2Affine_from(src.delta_g2),
     gamma_abc_g1 |-> [i \in 1..Len(src.gamma_abc_g1) |->
                          vk_ark_G1Affine_from(src.gamma_abc_g1[i])]]

\* verification_key.rs, From<PreparedVerifyingKey> for
\* ark_groth16::PreparedVerifyingKey
vk_ark_PreparedVerifyingKey_from(src) ==
    [vk |-> vk_ark_VerifyingKey_from(src.vk),
     alpha_g1_beta_g2 |-> vk_ark_Fq12_from(src.alpha_g1_beta_g2),
     gamma_g2_neg_pc |-> vk_ark_G2Prepared_from_local(src.gamma_g2_neg_pc),
     delta_g2_neg_pc |-> vk_ark_G2Prepared_from_local(src.delta_g2_neg_pc)]

\* verification_key::get_prepared_verifying_key
vk_get_prepared_verifying_key(vkey) ==
    LET parse_vkey == ark_VerifyingKey_from_json(vkey)
    IN vk_PreparedVerifyingKey_from_ark(ark_prepare_verifying_key(parse_vkey))

\* ark_groth16::prepare_inputs: Err(MalformedVerifyingKey) on an arity mismatch
ark_prepare_inputs_ok(pvk, public_inputs) ==
    Len(public_inputs) + 1 = Len(pvk.vk.gamma_abc_g1)

ark_prepare_inputs(pvk, public_inputs) ==
    LET RECURSIVE g_ic(_)
        g_ic(i) == IF i = 0 THEN pvk.vk.gamma_abc_g1[1]
                   ELSE ark_G1_add(g_ic(i - 1),
                                   ark_G1_mul(pvk.vk.gamma_abc_g1[i + 1], public_inputs[i]))
    IN g_ic(Len(public_inputs))

\* ark_groth16::verify_proof_with_prepared_inputs
ark_verify_proof_with_prepared_inputs(pvk, proof, prepared_inputs) ==
    LET test == ark_product_of_pairings(
                    << <<proof.a, ark_G2Prepared_from(proof.b)>>,
                       <<prepared_inputs, pvk.gamma_g2_neg_pc>>,
                       <<proof.c, pvk.delta_g2_neg_pc>> >>)
    IN test = pvk.alpha_g1_beta_g2

\* ark_groth16::verify_proof: Ok(bool), or Err on an arity mismatch
ark_verify_proof(pvk, proof, public_inputs) ==
    IF ~ark_prepare_inputs_ok(pvk, public_inputs) THEN Err("MalformedVerifyingKey")
    ELSE Ok(ark_verify_proof_with_prepared_inputs(
                pvk, proof, ark_prepare_inputs(pvk, public_inputs)))

\* the last statement of verify_proof a call enters
verify_proof_reached(proof_str, pub_inputs_str) ==
    LET proof == parse_circom_proof(proof_str)
        pub_inputs == parse_public_inputs(pub_inputs_str)
    IN IF proof.kind = "Err" THEN "parse_circom_proof"
       ELSE IF pub_inputs.kind = "Err" THEN "parse_public_inputs"
       ELSE IF \E i \in 1..Len(pub_inputs.val) : Aborts_fr_from_str(pub_inputs.val[i])
            THEN "fr_from_str"
       ELSE IF Aborts_ark_Proof_from_json(proof.val) THEN "proof.into"
       ELSE "ark_groth16::verify_proof"

\* verify_proof returning whether the library call succeeded, not its verdict
verify_proof_is_ok(pvk, proof_str, pub_inputs_str) ==
    LET proof == parse_circom_proof(proof_str)
        pub_inputs == parse_public_inputs(pub_inputs_str)
        ark_pub_inputs == [i \in 1..Len(pub_inputs.val) |-> fr_from_str(pub_inputs.val[i])]
        res == ark_verify_proof(ark_PreparedVerifyingKey_from(pvk),
                                ark_Proof_from_json(proof.val), ark_pub_inputs)
    IN IF proof.kind = "Err" THEN proof
       ELSE IF pub_inputs.kind = "Err" THEN pub_inputs
       ELSE IF \E i \in 1..Len(pub_inputs.val) : Aborts_fr_from_str(pub_inputs.val[i])
            THEN Panic
       ELSE IF Aborts_ark_Proof_from_json(proof.val) THEN Panic
       ELSE Ok(res.kind = "Ok")

\* verify_proof handing the public inputs to the library last first
verify_proof_reversed(pvk, proof_str, pub_inputs_str) ==
    LET proof == parse_circom_proof(proof_str)
        pub_inputs == parse_public_inputs(pub_inputs_str)
        n == Len(pub_inputs.val)
        ark_pub_inputs == [i \in 1..n |-> fr_from_str(pub_inputs.val[n + 1 - i])]
        res == ark_verify_proof(ark_PreparedVerifyingKey_from(pvk),
                                ark_Proof_from_json(proof.val), ark_pub_inputs)
    IN IF proof.kind = "Err" THEN proof
       ELSE IF pub_inputs.kind = "Err" THEN pub_inputs
       ELSE IF \E i \in 1..Len(pub_inputs.val) : Aborts_fr_from_str(pub_inputs.val[i])
            THEN Panic
       ELSE IF Aborts_ark_Proof_from_json(proof.val) THEN Panic
       ELSE IF res.kind = "Err" THEN Panic
       ELSE Ok(res.val)

\* verify_proof parsing the public-input text before the proof text
verify_proof_inputs_first(pvk, proof_str, pub_inputs_str) ==
    LET proof == parse_circom_proof(proof_str)
        pub_inputs == parse_public_inputs(pub_inputs_str)
        ark_pub_inputs == [i \in 1..Len(pub_inputs.val) |-> fr_from_str(pub_inputs.val[i])]
        res == ark_verify_proof(ark_PreparedVerifyingKey_from(pvk),
                                ark_Proof_from_json(proof.val), ark_pub_inputs)
    IN IF pub_inputs.kind = "Err" THEN pub_inputs
       ELSE IF proof.kind = "Err" THEN proof
       ELSE IF \E i \in 1..Len(pub_inputs.val) : Aborts_fr_from_str(pub_inputs.val[i])
            THEN Panic
       ELSE IF Aborts_ark_Proof_from_json(proof.val) THEN Panic
       ELSE IF res.kind = "Err" THEN Panic
       ELSE Ok(res.val)

\* verify_proof of the near module
verify_proof(pvk, proof_str, pub_inputs_str) ==
    LET proof == parse_circom_proof(proof_str)
        pub_inputs == parse_public_inputs(pub_inputs_str)
        ark_pub_inputs == [i \in 1..Len(pub_inputs.val) |-> fr_from_str(pub_inputs.val[i])]
        res == ark_verify_proof(ark_PreparedVerifyingKey_from(pvk),
                                ark_Proof_from_json(proof.val), ark_pub_inputs)
    IN IF proof.kind = "Err" THEN proof
       ELSE IF pub_inputs.kind = "Err" THEN pub_inputs
       ELSE IF \E i \in 1..Len(pub_inputs.val) : Aborts_fr_from_str(pub_inputs.val[i])
            THEN Panic
       ELSE IF Aborts_ark_Proof_from_json(proof.val) THEN Panic
       ELSE IF res.kind = "Err" THEN Panic
       ELSE Ok(res.val)

(***************************************************************************)
(* Binary persistence: #[derive(BorshSerialize, BorshDeserialize)].  A     *)
(* limb is written as one byte, a bool as the byte 0 or 1, a Vec as its    *)
(* length in four little-endian bytes followed by its elements, a struct   *)
(* as its fields in declaration order.                                     *)
(***************************************************************************)
Ser_u32(n) == << n % 256, (n \div 256) % 256, (n \div 65536) % 256, 0 >>
Ser_bool(b) == << IF b THEN 1 ELSE 0 >>
Ser_BigInteger256(x) == x.val
Ser_Fq(x) == Ser_BigInteger256(x.c0)
Ser_Fq2(x) == Ser_BigInteger256(x.c0) \o Ser_BigInteger256(x.c1)
Ser_Fq6(x) == Ser_Fq2(x.c0) \o Ser_Fq2(x.c1) \o Ser_Fq2(x.c2)
Ser_Fq12(x) == Ser_Fq6(x.c0) \o Ser_Fq6(x.c1)
Ser_G1Affine(x) == Ser_BigInteger256(x.x) \o Ser_BigInteger256(x.y) \o Ser_bool(x.infinity)
Ser_G2Affine(x) == Ser_Fq2(x.x) \o Ser_Fq2(x.y) \o Ser_bool(x.infinity)

Ser_EllCoeff(e) == Ser_Fq2(e[1]) \o Ser_Fq2(e[2]) \o Ser_Fq2(e[3])

\* the encoding of an element of a Vec<ty>
Ser_Elem(x, ty) ==
    CASE ty = "G1Affine" -> Ser_G1Affine(x)
      [] ty = "(Fq2, Fq2, Fq2)" -> Ser_EllCoeff(x)

\* a Vec<ty>: the length, then every element in order
Ser_Vec(v, ty) ==
    LET RECURSIVE cat(_)
        cat(i) == IF i = 0 THEN <<>> ELSE cat(i - 1) \o Ser_Elem(v[i], ty)
    IN Ser_u32(Len(v)) \o cat(Len(v))
Ser_G2Prepared(x) == Ser_Vec(x.ell_coeffs, "(Fq2, Fq2, Fq2)") \o Ser_bool(x.infinity)

Ser_VerifyingKey(x) ==
    Ser_G1Affine(x.alpha_g1) \o Ser_G2Affine(x.beta_g2) \o Ser_G2Affine(x.gamma_g2)
        \o Ser_G2Affine(x.delta_g2) \o Ser_Vec(x.gamma_abc_g1, "G1Affine")

Ser_PreparedVerifyingKey(x) ==
    Ser_VerifyingKey(x.vk) \o Ser_Fq12(x.alpha_g1_beta_g2)
        \o Ser_G2Prepared(x.gamma_g2_neg_pc) \o Ser_G2Prepared(x.delta_g2_neg_pc)

\* A decoder reads at position p of the bytes b and returns the value and
\* the next position, or fails (ok = FALSE) when the bytes run out or a
\* bool byte is neither 0 nor 1.
DeOk(v, p) == [ok |-> TRUE, val |-> v, pos |-> p]
DeFail == [ok |-> FALSE, val |-> 0, pos |-> 0]

De_bool(b, p) ==
    IF p >= 1 /\ p <= Len(b) /\ b[p] \in {0, 1} THEN DeOk(b[p] = 1, p + 1) ELSE DeFail

De_BigInteger256(b, p) ==
    IF p >= 1 /\ p + NumLimbs - 1 <= Len(b)
    THEN DeOk([val |-> [i \in 1..NumLimbs |-> b[p + i - 1]]], p + NumLimbs)
    ELSE DeFail

\* the length prefix: fails also when it exceeds the bytes that remain
De_u32(b, p) ==
    IF p >= 1 /\ p + 3 <= Len(b) /\ b[p + 2] = 0 /\ b[p + 3] = 0
          /\ b[p] + 256 * b[p + 1] <= Len(b)
    THEN DeOk(b[p] + 256 * b[p + 1], p + 4) ELSE DeFail

\* #[derive(BorshDeserialize)]: the types of the fields of a struct, in the
\* order they are declared
FieldTypes(ty) ==
    CASE ty = "Fq" -> <<"BigInteger256">>
      [] ty = "Fq2" -> <<"BigInteger256", "BigInteger256">>
      [] ty = "Fq6" -> <<"Fq2", "Fq2", "Fq2">>
      [] ty = "Fq12" -> <<"Fq6", "Fq6">>
      [] ty = "G1Affine" -> <<"BigInteger256", "BigInteger256", "bool">>
      [] ty = "G2Affine" -> <<"Fq2", "Fq2", "bool">>
      [] ty = "(Fq2, Fq2, Fq2)" -> <<"Fq2", "Fq2", "Fq2">>
      [] ty = "G2Prepared" -> <<"Vec<(Fq2, Fq2, Fq2)>", "bool">>
      [] ty = "VerifyingKey" ->
            <<"G1Affine", "G2Affine", "G2Affine", "G2Affine", "Vec<G1Affine>">>
      [] ty = "PreparedVerifyingKey" ->
            <<"VerifyingKey", "Fq12", "G2Prepared", "G2Prepared">>

\* the struct of type ty whose fields, in the order declared, are v
Construct(ty, v) ==
    CASE ty = "Fq" -> [c0 |-> v[1]]
      [] ty = "Fq2" -> [c0 |-> v[1], c1 |-> v[2]]
      [] ty = "Fq6" -> [c0 |-> v[1], c1 |-> v[2], c2 |-> v[3]]
      [] ty = "Fq12" -> [c0 |-> v[1], c1 |-> v[2]]
      [] ty = "G1Affine" -> [x |-> v[1], y |-> v[2], infinity |-> v[3]]
      [] ty = "G2Affine" -> [x |-> v[1], y |-> v[2], infinity |-> v[3]]
      [] ty = "(Fq2, Fq2, Fq2)" -> <<v[1], v[2], v[3]>>
      [] ty = "G2Prepared" -> [ell_coeffs |-> v[1], infinity |-> v[2]]
      [] ty = "VerifyingKey" ->
            [alpha_g1 |-> v[1], beta_g2 |-> v[2], gamma_g2 |-> v[3],
             delta_g2 |-> v[4], gamma_abc_g1 |-> v[5]]
      [] ty = "PreparedVerifyingKey" ->
            [vk |-> v[1], alpha_g1_beta_g2 |-> v[2],
             gamma_g2_neg_pc |-> v[3], delta_g2_neg_pc |-> v[4]]

\* the struct made of the fields read, when they were read
De_Build(r, ty) == IF r.ok THEN DeOk(Construct(ty, r.val), r.pos) ELSE DeFail

RECURSIVE De_Type(_, _, _)

\* values of the types tys read one after the other, each where the one
\* before it ended
De_Fields(b, p, tys) ==
    LET RECURSIVE at(_)
        at(i) == IF i = 0 THEN DeOk(<<>>, p)
                 ELSE LET prev == at(i - 1)
                          e == De_Type(b, prev.pos, tys[i])
                      IN IF prev.ok /\ e.ok THEN DeOk(Append(prev.val, e.val), e.pos)
                         ELSE DeFail
    IN at(Len(tys))

\* a Vec<ty> read with every element put in front of those read before it
De_Vec_reversed(b, p, ty) ==
    LET n == De_u32(b, p)
        RECURSIVE read(_, _, _)
        read(i, pos, acc) ==
            IF i > n.val THEN DeOk(acc, pos)
            ELSE LET e == De_Type(b, pos, ty)
                 IN IF e.ok THEN read(i + 1, e.pos, <<e.val>> \o acc) ELSE DeFail
    IN IF n.ok THEN read(1, n.pos, <<>>) ELSE DeFail

\* a Vec<ty>: the length, then that many elements, each read where the
\* one before it ended; the first element that cannot be read ends the read
De_Vec(b, p, ty) ==
    LET n == De_u32(b, p)
        RECURSIVE read(_, _, _)
        read(i, pos, acc) ==
            IF i > n.val THEN DeOk(acc, pos)
            ELSE LET e == De_Type(b, pos, ty)
                 IN IF e.ok THEN read(i + 1, e.pos, Append(acc, e.val)) ELSE DeFail
    IN IF n.ok THEN read(1, n.pos, <<>>) ELSE DeFail

\* a value of the persisted type ty read at position p
De_Type(b, p, ty) ==
    CASE ty = "bool" -> De_bool(b, p)
      [] ty = "BigInteger256" -> De_BigInteger256(b, p)
      [] ty = "Vec<G1Affine>" -> De_Vec(b, p, "G1Affine")
      [] ty = "Vec<(Fq2, Fq2, Fq2)>" -> De_Vec(b, p, "(Fq2, Fq2, Fq2)")
      [] OTHER -> De_Build(De_Fields(b, p, FieldTypes(ty)), ty)

\* the encoding of a value x of the persisted type ty
Ser_Type(x, ty) ==
    CASE ty = "BigInteger256" -> Ser_BigInteger256(x)
      [] ty = "Fq" -> Ser_Fq(x)
      [] ty = "Fq2" -> Ser_Fq2(x)
      [] ty = "Fq6" -> Ser_Fq6(x)
      [] ty = "Fq12" -> Ser_Fq12(x)
      [] ty = "G1Affine" -> Ser_G1Affine(x)
      [] ty = "G2Affine" -> Ser_G2Affine(x)
      [] ty = "G2Prepared" -> Ser_G2Prepared(x)
      [] ty = "VerifyingKey" -> Ser_VerifyingKey(x)
      [] ty = "PreparedVerifyingKey" -> Ser_PreparedVerifyingKey(x)

\* try_from_slice that leaves bytes unread
try_from_slice_lenient(b, ty) ==
    LET r == De_Type(b, 1, ty)
    IN IF ~r.ok THEN Err("Unexpected length of input") ELSE Ok(r.val)

\* BorshDeserialize::try_from_slice: decode, and fail on bytes left over
try_from_slice(b, ty) ==
    LET r == De_Type(b, 1, ty)
    IN IF ~r.ok THEN Err("Unexpected length of input")
       ELSE IF r.pos # Len(b) + 1 THEN Err("Not all bytes read")
       ELSE Ok(r.val)

(***************************************************************************)
(* The artifacts the calls are given.  A key is described by the multiples *)
(* of the generators its points are (alpha, beta, gamma, delta, ic), a     *)
(* proof by (a, b, c), the public inputs by a sequence of naturals; a form *)
(* says how the artifact is written down: as snarkjs writes it ("plain"),  *)
(* in another spelling of the same values, or damaged.                     *)
(***************************************************************************)
Form(f, n) == [f |-> f, n |-> n]
Plain == Form("plain", 0)

Groth16Str == <<"g", "r", "o", "t", "h", "1", "6">>
Bn128Str == <<"b", "n", "1", "2", "8">>
PlonkStr == <<"p", "l", "o", "n", "k">>
Bls12Str == <<"b", "l", "s", "1", "2">>

\* the literal of a coordinate; with plusq, of the coordinate plus the modulus
Coord(v, plusq) == JS(Dec(IF plusq THEN v + QMod ELSE v))

\* Jacobian coordinates (x z^2, y z^3, z) of k times the generator of G1;
\* snarkjs writes the point at infinity as (0, 1, 0)
G1Json(k, z, plusq) ==
    LET t == G1Table[k % RMod]
        c == IF k % RMod = 0 THEN <<0, 1, 0>>
             ELSE << (t[1] * z * z) % QMod, (t[2] * z * z * z) % QMod, z >>
    IN JA([i \in 1..3 |-> Coord(c[i], plusq)])

\* the same for G2, z = (z, 0), each coordinate a pair [c0, c1]
G2Json(k, z, plusq) ==
    LET t == G2Table[k % RMod]
        pair(u) == JA(<< Coord(u[1], plusq), Coord(u[2], plusq) >>)
        sc(u, m) == << (u[1] * m) % QMod, (u[2] * m) % QMod >>
    IN IF k % RMod = 0 THEN JA(<< pair(<<0, 0>>), pair(<<1, 0>>), pair(<<0, 0>>) >>)
       ELSE JA(<< pair(sc(t[1], z * z)), pair(sc(t[2], z * z * z)), pair(<<z, 0>>) >>)

\* vk_alphabeta_12 as snarkjs writes the k-th power of the GT generator
AlphaBetaJson(k) ==
    LET t == GTTable[(k % RMod) + 1]
        f2(i) == JA(<< Coord(t[i], FALSE), Coord(t[i + 1], FALSE) >>)
        f6(i) == JA(<< f2(i), f2(i + 2), f2(i + 4) >>)
    IN JA(<< f6(1), f6(7) >>)

VkeyKeys == << "protocol", "curve", "nPublic", "vk_alpha_1", "vk_beta_2",
               "vk_gamma_2", "vk_delta_2", "vk_alphabeta_12", "IC" >>

ProofKeys == << "pi_a", "pi_b", "pi_c", "protocol", "curve" >>

\* the object o without key k
Without(o, k) == [x \in (DOMAIN o) \ {k} |-> o[x]]

\* the array a without its last element / with its last element repeated
Shorter(a) == JA(SubSeq(a.v, 1, Len(a.v) - 1))
Longer(a) == JA(Append(a.v, a.v[Len(a.v)]))
\* the array a with element i replaced
With(a, i, e) == JA([a.v EXCEPT ![i] = e])

\* literals that are no canonical non-negative decimal
BadLiterals == << <<"-", "1">>, <<"a", "b", "c">>, <<>>, <<"0", "1">> >>

\* G1 and G2 arrays of the wrong arity, made from right ones
BadG1(g1, n) == CASE n = 1 -> Shorter(g1)
                  [] n = 2 -> Longer(g1)
                  [] OTHER -> JA(<<>>)

BadG2(g2, n) == CASE n = 1 -> Shorter(g2)
                  [] n = 2 -> Longer(g2)
                  [] n = 3 -> With(g2, 1, Shorter(g2.v[1]))
                  [] OTHER -> With(g2, 3, Longer(g2.v[3]))

VkeyObject(kp, z, plusq, protocol, curve, npublic, ab) ==
    [protocol |-> JS(protocol),
     curve |-> JS(curve),
     nPublic |-> JN(npublic),
     vk_alpha_1 |-> G1Json(kp.alpha, z, plusq),
     vk_beta_2 |-> G2Json(kp.beta, z, plusq),
     vk_gamma_2 |-> G2Json(kp.gamma, z, plusq),
     vk_delta_2 |-> G2Json(kp.delta, z, plusq),
     vk_alphabeta_12 |-> AlphaBetaJson(ab),
     IC |-> JA([i \in 1..Len(kp.ic) |-> G1Json(kp.ic[i], z, plusq)])]

\* the verifying-key JSON of key kp written in form fm
VkeyText(kp, fm) ==
    LET n == IF Len(kp.ic) = 0 THEN 0 ELSE Len(kp.ic) - 1
        ab == kp.alpha * kp.beta
        o == VkeyObject(kp, 1, FALSE, Groth16Str, Bn128Str, n, ab)
    IN CASE fm.f = "plain" -> JO(o)
         [] fm.f = "z" -> JO(VkeyObject(kp, fm.n, FALSE, Groth16Str, Bn128Str, n, ab))
         [] fm.f = "plusq" -> JO(VkeyObject(kp, 1, TRUE, Groth16Str, Bn128Str, n, ab))
         [] fm.f = "protocol" -> JO([o EXCEPT !.protocol = JS(PlonkStr)])
         [] fm.f = "curve" -> JO([o EXCEPT !.curve = JS(Bls12Str)])
         [] fm.f = "npublic" -> JO([o EXCEPT !.nPublic = JN(fm.n)])
         [] fm.f = "alphabeta" -> JO([o EXCEPT !.vk_alphabeta_12 = AlphaBetaJson(ab + fm.n)])
         [] fm.f = "missing" -> JO(Without(o, VkeyKeys[fm.n]))
         [] fm.f = "g1arity" -> JO([o EXCEPT !.vk_alpha_1 = BadG1(@, fm.n)])
         [] fm.f = "g2arity" -> JO([o EXCEPT !.vk_beta_2 = BadG2(@, fm.n)])
         [] fm.f = "icarity" -> JO([o EXCEPT !.IC = With(@, 1, BadG1(@.v[1], fm.n))])
         [] fm.f = "literal" -> JO([o EXCEPT !.vk_alpha_1 = With(@, 1, JS(BadLiterals[fm.n]))])
         [] fm.f = "type" -> JO([o EXCEPT !.nPublic = JS(Dec(n))])
         [] fm.f = "zero" -> JO([o EXCEPT !.vk_alpha_1 = With(@, 3, Coord(0, FALSE)),
                                           !.vk_beta_2 = With(@, 3, JA(<< Coord(0, FALSE), Coord(0, FALSE) >>))])
         [] OTHER -> NotJson

ProofObject(pp, z, plusq) ==
    [pi_a |-> G1Json(pp.a, z, plusq),
     pi_b |-> G2Json(pp.b, z, plusq),
     pi_c |-> G1Json(pp.c, z, plusq),
     protocol |-> JS(Groth16Str),
     curve |-> JS(Bn128Str)]

\* the proof JSON of proof pp written in form fm
ProofText(pp, fm) ==
    LET o == ProofObject(pp, 1, FALSE)
    IN CASE fm.f = "plain" -> JO(o)
         [] fm.f = "z" -> JO(ProofObject(pp, fm.n, FALSE))
         [] fm.f = "plusq" -> JO(ProofObject(pp, 1, TRUE))
         [] fm.f = "curve" -> JO([o EXCEPT !.curve = JS(Bls12Str)])
         [] fm.f = "nocurve" -> JO(Without(o, "curve"))
         [] fm.f = "missing" -> JO(Without(o, ProofKeys[fm.n]))
         [] fm.f = "g1arity" -> JO([o EXCEPT !.pi_a = BadG1(@, fm.n)])
         [] fm.f = "g2arity" -> JO([o EXCEPT !.pi_b = BadG2(@, fm.n)])
         [] fm.f = "literal" -> JO([o EXCEPT !.pi_c = With(@, 2, JS(BadLiterals[fm.n]))])
         [] OTHER -> NotJson

\* the public-input JSON of the naturals xs written in form fm
InputsText(xs, fm) ==
    LET a == JA([i \in 1..Len(xs) |-> JS(Dec(xs[i]))])
    IN CASE fm.f = "plain" -> a
         [] fm.f = "literal" -> With(a, fm.n, JS(BadLiterals[1 + ((fm.n - 1) % Len(BadLiterals))]))
         [] fm.f = "number" -> With(a, 1, JN(xs[1]))
         [] fm.f = "object" -> JO([inputs |-> a])
         [] OTHER -> NotJson

(***************************************************************************)
(* The artifacts drawn.  The reference key has MaxInputs - 1 public        *)
(* inputs; the other keys have shorter or longer IC arrays, or a point at  *)
(* infinity.  Proofs are drawn so that each key has proofs that satisfy    *)
(* the verification equation and proofs that do not.                       *)
(***************************************************************************)
Case(p, fm) == [p |-> p, fm |-> fm]

KeyOf(alpha, beta, gamma, delta, ic) ==
    [alpha |-> alpha, beta |-> beta, gamma |-> gamma, delta |-> delta, ic |-> ic]

\* IC[0], IC[1], ... of the reference key, as multiples of the generator
ICTable == <<1, 4, 6, 9, 3, 11, 8, 5>>

BaseIC == SubSeq(ICTable, 1, MaxInputs)

BaseKey == KeyOf(2, 3, 5, 7, BaseIC)

KeyParams ==
    {KeyOf(2, 3, 5, 7, SubSeq(BaseIC, 1, n)) : n \in 0..MaxInputs}
        \cup {KeyOf(2, 3, 5, 7, Append(BaseIC, 9)),
              KeyOf(2, 3, 5, 7, [BaseIC EXCEPT ![2] = 0]),
              KeyOf(2, 3, 0, 7, BaseIC),
              KeyOf(2, 3, 5, 0, BaseIC),
              KeyOf(0, 3, 5, 7, BaseIC)}

KeyForms ==
    {Form("z", z) : z \in 2..MaxZ}
        \cup {Form("plusq", 0), Form("protocol", 0), Form("curve", 0), Form("type", 0),
              Form("notjson", 0), Form("zero", 0)}
        \cup {Form("npublic", n) : n \in (0..(MaxInputs + 1)) \ {MaxInputs - 1}}
        \cup {Form("alphabeta", n) : n \in 1..2}
        \cup {Form("missing", n) : n \in 1..Len(VkeyKeys)}
        \cup {Form("g1arity", n) : n \in 1..3}
        \cup {Form("g2arity", n) : n \in 1..4}
        \cup {Form("icarity", n) : n \in 1..2}
        \cup {Form("literal", n) : n \in 1..Len(BadLiterals)}

KeyCases == {Case(kp, Plain) : kp \in KeyParams} \cup {Case(BaseKey, fm) : fm \in KeyForms}

ProofOf(a, b, c) == [a |-> a, b |-> b, c |-> c]

\* the public inputs of the reference triple, cut or padded to n values
BaseInputs(n) == [i \in 1..n |-> IF i = 2 THEN 2 ELSE 1]

\* the multiple of the generator the public-input commitment of (kp, xs) is
AccOf(kp, xs) ==
    LET RECURSIVE sum(_)
        sum(i) == IF i = 0 THEN kp.ic[1] ELSE (sum(i - 1) + xs[i] * kp.ic[i + 1]) % RMod
    IN sum(Len(xs))

\* the Groth16 equation e(A, B) = e(alpha, beta) e(acc, gamma) e(C, delta),
\* on the multiples of the generators
Satisfies(kp, pp, xs) ==
    /\ Len(xs) + 1 = Len(kp.ic)
    /\ (pp.a * pp.b) % RMod
         = (kp.alpha * kp.beta + AccOf(kp, xs) * kp.gamma + pp.c * kp.delta) % RMod

\* the a for which (a, 2, 1) satisfies the equation of the reference key
BaseA == CHOOSE a \in 0..(RMod - 1) :
            Satisfies(BaseKey, ProofOf(a, 2, 1), BaseInputs(MaxInputs - 1))

BaseProof == ProofOf(BaseA, 2, 1)

ProofParams ==
    {ProofOf(a, b, c) : a \in {0, BaseA, (BaseA + 6) % RMod}, b \in {0, 2}, c \in {0, 1}}
        \cup {ProofOf(BaseA + 1, 2, 1), ProofOf(BaseA, 3, 1), ProofOf(BaseA, 2, 2)}

ProofForms ==
    {Form("z", z) : z \in 2..MaxZ}
        \cup {Form("plusq", 0), Form("curve", 0), Form("nocurve", 0), Form("notjson", 0)}
        \cup {Form("missing", n) : n \in 1..4}
        \cup {Form("g1arity", n) : n \in 1..2}
        \cup {Form("g2arity", n) : n \in {1, 3}}
        \cup {Form("literal", n) : n \in 1..2}

ProofCases ==
    {Case(pp, Plain) : pp \in ProofParams} \cup {Case(BaseProof, fm) : fm \in ProofForms}

InputParams ==
    {BaseInputs(n) : n \in 0..MaxInputs}
        \cup {[BaseInputs(MaxInputs - 1) EXCEPT ![i] = @ + d] :
                 i \in 1..(MaxInputs - 1), d \in {1, RMod}}

InputForms ==
    {Form("literal", n) : n \in 1..2}
        \cup {Form("number", 0), Form("object", 0), Form("notjson", 0)}

InputCases ==
    {Case(xs, Plain) : xs \in InputParams}
        \cup {Case(BaseInputs(MaxInputs - 1), fm) : fm \in InputForms}

\* forms that spell the same values as the plain form does
KeySpellings == {"plain", "z", "plusq", "protocol", "curve", "npublic", "alphabeta"}
ProofSpellings == {"plain", "z", "plusq", "curve", "nocurve"}

\* a valid triple: well-written artifacts whose values satisfy the equation
ValidTriple(kc, pc, ic) ==
    /\ kc.fm.f \in KeySpellings
    /\ pc.fm.f \in ProofSpellings
    /\ ic.fm.f = "plain"
    /\ Satisfies(kc.p, pc.p, ic.p)

\* where the length prefixes of gamma_abc_g1 and of the two ell_coeffs
\* start in the encoding of the prepared key k
LengthPositions(k) ==
    LET g == Len(Ser_G1Affine(k.vk.alpha_g1)) + Len(Ser_G2Affine(k.vk.beta_g2))
                + Len(Ser_G2Affine(k.vk.gamma_g2)) + Len(Ser_G2Affine(k.vk.delta_g2)) + 1
        e1 == Len(Ser_VerifyingKey(k.vk)) + Len(Ser_Fq12(k.alpha_g1_beta_g2)) + 1
        e2 == e1 + Len(Ser_G2Prepared(k.gamma_g2_neg_pc))
    IN <<g, e1, e2>>

\* the bytes b with the u32 at position p replaced by n
WithLength(b, p, n) ==
    [i \in 1..Len(b) |-> IF i = p THEN n % 256
                          ELSE IF i = p + 1 THEN n \div 256
                          ELSE IF i \in {p + 2, p + 3} THEN 0
                          ELSE b[i]]

\* byte strings whose length does not match an encoding: the strict
\* prefixes of the encoding b, b followed by extra bytes, and b with a
\* length prefix larger than the bytes that remain
Damages(b) ==
    {[f |-> "prefix", n |-> n] : n \in 0..(Len(b) - 1)}
        \cup {[f |-> "extra", n |-> n] : n \in 1..2}
        \cup {[f |-> "length", n |-> n] : n \in 1..3}

Damaged(b, k, d) ==
    CASE d.f = "prefix" -> SubSeq(b, 1, d.n)
      [] d.f = "extra" -> b \o [i \in 1..d.n |-> i - 1]
      [] d.f = "length" -> WithLength(b, LengthPositions(k)[d.n], Len(b))

\* limbs whose integer is not below the base-field modulus
UnreducedLimbs ==
    << <<QMod, 0, 0, 0>>, <<QMod + 1, 0, 0, 0>>, <<0, 1, 0, 0>>, <<0, 0, 0, 1>>,
       <<LimbBase - 1, LimbBase - 1, LimbBase - 1, LimbBase - 1>> >>

\* the bytes b with the limbs at position p replaced by l
WithLimbs(b, p, l) ==
    [i \in 1..Len(b) |-> IF i >= p /\ i < p + NumLimbs THEN l[i - p + 1] ELSE b[i]]

(***************************************************************************)
(* The state: the texts handed to the calls and what each call returned.   *)
(* kcase, pcase and icase record which key, proof and public inputs the    *)
(* texts were written from; calls counts the verify_proof calls made, prev *)
(* records the call before the last one and reached the last statement of  *)
(* verify_proof the last call entered; no call reads them.                 *)
(***************************************************************************)
VARIABLES kcase, pcase, icase, vkey_str, proof_str, pub_inputs_str,
          vkey, pvk, stored, loaded, res, pc, damage, calls, prev, reached

vars == << kcase, pcase, icase, vkey_str, proof_str, pub_inputs_str,
           vkey, pvk, stored, loaded, res, pc, damage, calls, prev, reached >>

\* the calls that sequences of calls are made of: on the reference key an
\* accepted, a rejected, a failing and an aborting one
RetryCases ==
    {<< Case(BaseProof, Plain), Case(BaseInputs(MaxInputs - 1), Plain) >>,
     << Case(ProofOf(BaseA + 1, 2, 1), Plain), Case(BaseInputs(MaxInputs - 1), Plain) >>,
     << Case(BaseProof, Form("notjson", 0)), Case(BaseInputs(MaxInputs - 1), Plain) >>,
     << Case(BaseProof, Plain), Case(BaseInputs(MaxInputs), Plain) >>}

\* the (proof, public inputs) pairs the next verify_proof call is drawn
\* from: every pair for the first call; a call of RetryCases is followed by
\* any call of RetryCases
CallCases ==
    IF calls = 0 THEN ProofCases \X InputCases
    ELSE IF << pcase, icase >> \in RetryCases THEN RetryCases
    ELSE {}

Init ==
    /\ kcase \in KeyCases
    /\ vkey_str = VkeyText(kcase.p, kcase.fm)
    /\ pcase = None
    /\ icase = None
    /\ proof_str = NotJson
    /\ pub_inputs_str = NotJson
    /\ vkey = None
    /\ pvk = None
    /\ stored = <<>>
    /\ loaded = None
    /\ res = None
    /\ damage = None
    /\ calls = 0
    /\ prev = None
    /\ reached = "none"
    /\ pc = "init"

\* near::parse_verification_key(vkey_str)
ParseVerificationKey ==
    /\ pc = "init"
    /\ vkey' = parse_verification_key(vkey_str)
    /\ pc' = "parsed"
    /\ UNCHANGED << kcase, pcase, icase, vkey_str, proof_str, pub_inputs_str,
                    pvk, stored, loaded, res, damage, calls, prev, reached >>

\* near::get_prepared_verifying_key(vkey)
GetPreparedVerifyingKey ==
    /\ pc = "parsed"
    /\ vkey.kind = "Ok"
    /\ pvk' = IF Aborts_get_prepared_verifying_key(vkey.val) THEN Panic
              ELSE Ok(get_prepared_verifying_key(vkey.val))
    /\ pc' = "prepared"
    /\ UNCHANGED << kcase, pcase, icase, vkey_str, proof_str, pub_inputs_str,
                    vkey, stored, loaded, res, damage, calls, prev, reached >>

\* the prepared key is persisted: BorshSerialize
StorePreparedKey ==
    /\ pc = "prepared"
    /\ pvk.kind = "Ok"
    /\ stored' = Ser_PreparedVerifyingKey(pvk.val)
    /\ pc' = "stored"
    /\ UNCHANGED << kcase, pcase, icase, vkey_str, proof_str, pub_inputs_str,
                    vkey, pvk, loaded, res, damage, calls, prev, reached >>

\* the persisted key is read back: BorshDeserialize::try_from_slice
LoadPreparedKey ==
    /\ pc = "stored"
    /\ loaded' = try_from_slice(stored, "PreparedVerifyingKey")
    /\ pc' = "loaded"
    /\ UNCHANGED << kcase, pcase, icase, vkey_str, proof_str, pub_inputs_str,
                    vkey, pvk, stored, res, damage, calls, prev, reached >>

\* persisted bytes of the wrong length are read: try_from_slice
LoadDamagedKey ==
    /\ pc = "stored"
    /\ \E d \in Damages(stored) :
          /\ damage' = d
          /\ stored' = Damaged(stored, pvk.val, d)
    /\ loaded' = try_from_slice(stored', "PreparedVerifyingKey")
    /\ pc' = "damaged"
    /\ UNCHANGED << kcase, pcase, icase, vkey_str, proof_str, pub_inputs_str,
                    vkey, pvk, res, calls, prev, reached >>

\* persisted bytes whose alpha_g1.x limbs are not below the modulus are read
LoadUnreducedKey ==
    /\ pc = "stored"
    /\ \E n \in 1..Len(UnreducedLimbs) :
          /\ damage' = [f |-> "limbs", n |-> n]
          /\ stored' = WithLimbs(stored, 1, UnreducedLimbs[n])
    /\ loaded' = try_from_slice(stored', "PreparedVerifyingKey")
    /\ pc' = "unreduced"
    /\ UNCHANGED << kcase, pcase, icase, vkey_str, proof_str, pub_inputs_str,
                    vkey, pvk, res, calls, prev, reached >>

\* a verify_proof call that fails whenever the key has been used before
VerifyProof_once ==
    /\ pc \in {"loaded", "done"}
    /\ loaded.kind = "Ok"
    /\ calls < MaxCalls
    /\ \E c \in CallCases :
          /\ pcase' = c[1]
          /\ icase' = c[2]
          /\ proof_str' = ProofText(c[1].p, c[1].fm)
          /\ pub_inputs_str' = InputsText(c[2].p, c[2].fm)
          /\ res' = IF calls > 0 THEN Err(ParseError("proof"))
                    ELSE verify_proof(loaded.val, proof_str', pub_inputs_str')
          /\ reached' = verify_proof_reached(proof_str', pub_inputs_str')
    /\ prev' = IF calls = 0 THEN None
               ELSE [pcase |-> pcase, icase |-> icase, res |-> res]
    /\ calls' = calls + 1
    /\ pc' = "done"
    /\ UNCHANGED << kcase, vkey_str, vkey, pvk, stored, loaded, damage >>

\* a verify_proof call that answers from the call before when that call
\* returned a verdict
VerifyProof_cached ==
    /\ pc \in {"loaded", "done"}
    /\ loaded.kind = "Ok"
    /\ calls < MaxCalls
    /\ \E c \in CallCases :
          /\ pcase' = c[1]
          /\ icase' = c[2]
          /\ proof_str' = ProofText(c[1].p, c[1].fm)
          /\ pub_inputs_str' = InputsText(c[2].p, c[2].fm)
          /\ res' = IF calls > 0 /\ res.kind = "Ok" THEN res
                    ELSE verify_proof(loaded.val, proof_str', pub_inputs_str')
          /\ reached' = verify_proof_reached(proof_str', pub_inputs_str')
    /\ prev' = IF calls = 0 THEN None
               ELSE [pcase |-> pcase, icase |-> icase, res |-> res]
    /\ calls' = calls + 1
    /\ pc' = "done"
    /\ UNCHANGED << kcase, vkey_str, vkey, pvk, stored, loaded, damage >>

\* near::verify_proof(pvk, proof_str, pub_inputs_str) on the key read back
VerifyProof ==
    /\ pc \in {"loaded", "done"}
    /\ loaded.kind = "Ok"
    /\ calls < MaxCalls
    /\ \E c \in CallCases :
          /\ pcase' = c[1]
          /\ icase' = c[2]
          /\ proof_str' = ProofText(c[1].p, c[1].fm)
          /\ pub_inputs_str' = InputsText(c[2].p, c[2].fm)
          /\ res' = verify_proof(loaded.val, proof_str', pub_inputs_str')
          /\ reached' = verify_proof_reached(proof_str', pub_inputs_str')
    /\ prev' = IF calls = 0 THEN None
               ELSE [pcase |-> pcase, icase |-> icase, res |-> res]
    /\ calls' = calls + 1
    /\ pc' = "done"
    /\ UNCHANGED << kcase, vkey_str, vkey, pvk, stored, loaded, damage >>

\* verification_key::parse_verification_key(vkey_str)
VK_ParseVerificationKey ==
    /\ pc = "init"
    /\ vkey' = vk_parse_verification_key(vkey_str)
    /\ pc' = "vk_parsed"
    /\ UNCHANGED << kcase, pcase, icase, vkey_str, proof_str, pub_inputs_str,
                    pvk, stored, loaded, res, damage, calls, prev, reached >>

\* verification_key::get_prepared_verifying_key(vkey)
VK_GetPreparedVerifyingKey ==
    /\ pc = "vk_parsed"
    /\ vkey.kind = "Ok"
    /\ pvk' = IF Aborts_get_prepared_verifying_key(vkey.val) THEN Panic
              ELSE Ok(vk_get_prepared_verifying_key(vkey.val))
    /\ pc' = "vk_prepared"
    /\ UNCHANGED << kcase, pcase, icase, vkey_str, proof_str, pub_inputs_str,
                    vkey, stored, loaded, res, damage, calls, prev, reached >>

\* the verifier module: the deserialized JSON is converted to the local
\* VerifyingKey and verifier::get_prepared_verifying_key prepares it
Verifier_GetPreparedVerifyingKey ==
    /\ pc = "parsed"
    /\ vkey.kind = "Ok"
    /\ pvk' = IF Aborts_VerifyingKey_from_json(vkey.val) THEN Panic
              ELSE Ok(verifier_get_prepared_verifying_key(VerifyingKey_from_json(vkey.val)))
    /\ pc' = "verifier_prepared"
    /\ UNCHANGED << kcase, pcase, icase, vkey_str, proof_str, pub_inputs_str,
                    vkey, stored, loaded, res, damage, calls, prev, reached >>

Next ==
    \/ ParseVerificationKey
    \/ VK_ParseVerificationKey
    \/ GetPreparedVerifyingKey
    \/ VK_GetPreparedVerifyingKey
    \/ Verifier_GetPreparedVerifyingKey
    \/ StorePreparedKey
    \/ LoadPreparedKey
    \/ LoadDamagedKey
    \/ LoadUnreducedKey
    \/ VerifyProof

Spec == Init /\ [][Next]_vars

(***************************************************************************)
(* Properties                                                              *)
(***************************************************************************)

\* C1: for every valid (verifying key, proof, public inputs) triple,
\* parse_verification_key, then get_prepared_verifying_key, then
\* verify_proof returns Ok(true).
C1_ValidTripleVerifies ==
    (pc = "done" /\ ValidTriple(kcase, pcase, icase)) => res = Ok(TRUE)

\* a valid triple whose key is written in Jacobian coordinates with z # 1
\* has been verified
C1_Witness ==
    /\ pc = "done"
    /\ ValidTriple(kcase, pcase, icase)
    /\ kcase.fm.f = "z"
    /\ res = Ok(TRUE)

\* xs1 is xs0 with exactly the public input i changed by 1
InputChangedAt(xs0, xs1, i) ==
    /\ Len(xs0) = Len(xs1)
    /\ i \in 1..Len(xs0)
    /\ xs1[i] = xs0[i] + 1 \/ xs1[i] + 1 = xs0[i]
    /\ \A j \in 1..Len(xs0) : j # i => xs1[j] = xs0[j]

\* which of proof.a, proof.b, proof.c denote another point in pcase than in p0
AlteredPoints(p0) ==
    {k \in {"a", "b", "c"} : (p0.p[k] - pcase.p[k]) % RMod # 0}

\* (pcase, icase) is the valid (p0, i0) with one public input changed by 1,
\* or with one of proof.a, proof.b, proof.c replaced by another point
OneChange(p0, i0) ==
    /\ ValidTriple(kcase, p0, i0)
    /\ pcase.fm.f \in ProofSpellings
    /\ icase.fm = Plain
    /\ \/ /\ p0 = pcase
          /\ \E i \in 1..Len(i0.p) : InputChangedAt(i0.p, icase.p, i)
       \/ /\ i0 = icase
          /\ Cardinality(AlteredPoints(p0)) = 1

\* C2 as stated: from a valid triple, changing any single public input by
\* 1, or altering proof.a, proof.b or proof.c, makes verify_proof return
\* Ok(false).
C2_Original ==
    pc = "done" =>
        \A p0 \in ProofCases, i0 \in InputCases :
            OneChange(p0, i0) => res = Ok(FALSE)

\* what the changed element is paired with is not the point at infinity:
\* IC[i+1] and gamma_g2 for public input i, b for a, a for b, delta_g2 for c
PartnerNotInfinity(p0, i0) ==
    \/ /\ p0 = pcase
       /\ \E i \in 1..Len(i0.p) :
             /\ InputChangedAt(i0.p, icase.p, i)
             /\ kcase.p.ic[i + 1] % RMod # 0
             /\ kcase.p.gamma % RMod # 0
    \/ /\ i0 = icase
       /\ \/ AlteredPoints(p0) = {"a"} /\ p0.p.b % RMod # 0
          \/ AlteredPoints(p0) = {"b"} /\ p0.p.a % RMod # 0
          \/ AlteredPoints(p0) = {"c"} /\ kcase.p.delta % RMod # 0

\* C2 amended: from a valid triple, changing public input i by 1 when
\* IC[i+1] and gamma_g2 are not the point at infinity, or replacing one of
\* proof.a, proof.b, proof.c by a different point of its group when the
\* point it is paired with (b for a, a for b, delta_g2 for c) is not the
\* point at infinity, makes verify_proof return Ok(false).
C2_Amended ==
    pc = "done" =>
        \A p0 \in ProofCases, i0 \in InputCases :
            (OneChange(p0, i0) /\ PartnerNotInfinity(p0, i0)) => res = Ok(FALSE)

\* a valid proof with proof.c replaced by another point has been rejected
C2_Witness ==
    /\ pc = "done"
    /\ res = Ok(FALSE)
    /\ \E p0 \in ProofCases :
          /\ OneChange(p0, icase)
          /\ PartnerNotInfinity(p0, icase)
          /\ AlteredPoints(p0) = {"c"}

\* C3 as stated: verify_proof returns an Err value whenever the number of
\* public inputs plus one differs from the length of gamma_abc_g1.
C3_Original ==
    (/\ pc = "done"
     /\ parse_public_inputs(pub_inputs_str).kind = "Ok"
     /\ Len(parse_public_inputs(pub_inputs_str).val) + 1
            # Len(loaded.val.vk.gamma_abc_g1))
    => res.kind = "Err"

HasNonDigit(s) == \E i \in 1..Len(s) : ~IsDigit(s[i])

\* C4 as stated: a decimal literal with a non-digit character makes the
\* call return an error value: verify_proof for a public input,
\* get_prepared_verifying_key for a coordinate of the key.
C4_Original ==
    /\ (/\ pc = "done"
        /\ parse_public_inputs(pub_inputs_str).kind = "Ok"
        /\ \E i \in 1..Len(parse_public_inputs(pub_inputs_str).val) :
              HasNonDigit(parse_public_inputs(pub_inputs_str).val[i]))
       => res.kind = "Err"
    /\ (/\ pc = "prepared"
        /\ \E i \in 1..Len(vkey.val.vk_alpha_1) : HasNonDigit(vkey.val.vk_alpha_1[i]))
       => pvk.kind = "Err"

\* the text is a JSON object that lacks a key of the verifying-key schema
MissingKey(t) == t.t = "o" /\ \E i \in 1..Len(VkeyKeys) : VkeyKeys[i] \notin DOMAIN t.v

\* C5: parse_verification_key on a verifying-key JSON that lacks a
\* required key returns the error "Failed to parse circom verification key
\* json" (near module) or "Failed to parse verification key json"
\* (verification_key module), and no key is produced from it.
C5_MissingKeyError ==
    MissingKey(vkey_str) =>
        /\ pc \in {"init", "parsed", "vk_parsed"}
        /\ pvk = None
        /\ pc = "parsed" => vkey = Err("Failed to parse circom verification key json")
        /\ pc = "vk_parsed" => vkey = Err("Failed to parse verification key json")

\* the near module has rejected a key without vk_alpha_1
C5_Witness ==
    /\ pc = "parsed"
    /\ vkey_str.t = "o"
    /\ "vk_alpha_1" \notin DOMAIN vkey_str.v
    /\ vkey.kind = "Err"

G1ArityOk(j) == Len(j.v) = 3
G2ArityOk(j) == Len(j.v) = 3 /\ \A i \in 1..3 : Len(j.v[i].v) = 2

\* the text has the keys and JSON types of the schema, and a G1 array that
\* is not three strings or a G2 array that is not three pairs
WrongArity(t) ==
    /\ Deserializes_VerificationKeyJson(t)
    /\ \/ ~G1ArityOk(t.v["vk_alpha_1"])
       \/ ~G2ArityOk(t.v["vk_beta_2"])
       \/ ~G2ArityOk(t.v["vk_gamma_2"])
       \/ ~G2ArityOk(t.v["vk_delta_2"])
       \/ \E i \in 1..Len(t.v["IC"].v) : ~G1ArityOk(t.v["IC"].v[i])

\* C6 as stated: a verifying-key JSON with a coordinate array of the
\* wrong arity is rejected with an error value at parse time, is never
\* converted to a key and never aborts the conversion.
C6_Original ==
    WrongArity(vkey_str) =>
        /\ pc \in {"parsed", "vk_parsed"} => vkey.kind = "Err"
        /\ pvk = None

\* the text is an object whose IC array length is not its nPublic + 1
ICMismatch(t) ==
    /\ t.t = "o"
    /\ HasField(t, "nPublic", "u64")
    /\ HasField(t, "IC", "Vec<Vec<String>>")
    /\ Len(t.v["IC"].v) # t.v["nPublic"].v + 1

\* C7 as stated: a verifying-key JSON whose IC array length differs from
\* nPublic + 1 is rejected with an error at parse time.
C7_Original ==
    (pc = "parsed" /\ ICMismatch(vkey_str)) => vkey.kind = "Err"

\* C7 amended: a verifying-key JSON whose IC array length differs from
\* nPublic + 1 and that has every key of the schema with the right JSON
\* type is accepted by parse_verification_key, with nPublic and IC
\* recorded as written; get_prepared_verifying_key gives gamma_abc_g1 the
\* length of IC.
C7_Amended ==
    (/\ pc # "init"
     /\ ICMismatch(vkey_str)
     /\ Deserializes_VerificationKeyJson(vkey_str))
    => /\ vkey.kind = "Ok"
       /\ vkey.val.num_public = vkey_str.v["nPublic"].v
       /\ Len(vkey.val.ic) = Len(vkey_str.v["IC"].v)
       /\ pvk.kind = "Ok" => Len(pvk.val.vk.gamma_abc_g1) = Len(vkey_str.v["IC"].v)

\* a key declaring a wrong nPublic has been parsed and prepared
C7_Witness ==
    /\ pc = "prepared"
    /\ ICMismatch(vkey_str)
    /\ kcase.fm.f = "npublic"
    /\ vkey.kind = "Ok"
    /\ pvk.kind = "Ok"

\* what get_prepared_verifying_key does on a parsed key
PrepareOutcome(v) ==
    IF Aborts_get_prepared_verifying_key(v) THEN Panic
    ELSE Ok(get_prepared_verifying_key(v))

\* the key text t with protocol, curve and nPublic replaced
WithHeader(t, protocol, curve, npublic) ==
    JO([t.v EXCEPT !["protocol"] = JS(protocol), !["curve"] = JS(curve),
                   !["nPublic"] = JN(npublic)])

\* C8: protocol, curve and nPublic are recorded verbatim by
\* parse_verification_key and influence nothing: every key JSON that
\* differs from a parsed one only in them parses too, and yields the same
\* prepared verifying key.
C8_HeaderIgnored ==
    (pc = "prepared" /\ vkey.kind = "Ok") =>
        \A protocol \in {Groth16Str, PlonkStr}, curve \in {Bn128Str, Bls12Str},
           npublic \in 0..(MaxInputs + 1) :
            LET r == parse_verification_key(WithHeader(vkey_str, protocol, curve, npublic))
            IN /\ r.kind = "Ok"
               /\ r.val.protocol = protocol
               /\ r.val.curve = curve
               /\ r.val.num_public = npublic
               /\ PrepareOutcome(r.val) = pvk

\* a key declaring fewer public inputs than IC has points has been prepared
C8_Witness ==
    /\ pc = "prepared"
    /\ kcase.fm = Form("npublic", 0)
    /\ vkey.kind = "Ok"
    /\ vkey.val.num_public = 0
    /\ pvk.kind = "Ok"
    /\ Len(pvk.val.vk.gamma_abc_g1) = MaxInputs

\* the proof text t without curve, or with curve c
WithCurve(t, present, c) ==
    IF ~present THEN JO(Without(t.v, "curve"))
    ELSE JO([k \in (DOMAIN t.v) \cup {"curve"} |-> IF k = "curve" THEN JS(c) ELSE t.v[k]])

\* C9: a proof JSON without curve parses with curve = "", and
\* verify_proof returns the same for proof JSONs that differ only in the
\* presence or value of curve.
C9_CurveIgnored ==
    (pc = "done" /\ proof_str.t = "o") =>
        /\ \A present \in BOOLEAN, c \in {Bn128Str, Bls12Str, <<>>} :
              verify_proof(loaded.val, WithCurve(proof_str, present, c), pub_inputs_str) = res
        /\ LET r == parse_circom_proof(WithCurve(proof_str, FALSE, <<>>))
           IN r.kind = "Ok" => r.val.curve = <<>>
        /\ parse_circom_proof(WithCurve(proof_str, FALSE, <<>>)).kind
              = parse_circom_proof(WithCurve(proof_str, TRUE, Bn128Str)).kind

\* a valid proof without curve has been accepted
C9_Witness ==
    /\ pc = "done"
    /\ pcase.fm.f = "nocurve"
    /\ "curve" \notin DOMAIN proof_str.v
    /\ res = Ok(TRUE)

\* decoding the encoding of x gives x back
RoundTrips(x, ty) == try_from_slice(Ser_Type(x, ty), ty) = Ok(x)

\* C10: for every value x of every persisted type, decoding the binary
\* encoding of x yields x, the sequences gamma_abc_g1 and ell_coeffs in
\* the same order, also when they are empty.
C10_RoundTrip ==
    pc = "loaded" =>
        LET k == pvk.val
        IN /\ loaded = Ok(k)
           /\ RoundTrips(k, "PreparedVerifyingKey")
           /\ RoundTrips(k.vk, "VerifyingKey")
           /\ RoundTrips(k.gamma_g2_neg_pc, "G2Prepared")
           /\ RoundTrips(k.delta_g2_neg_pc, "G2Prepared")
           /\ RoundTrips(k.alpha_g1_beta_g2, "Fq12")
           /\ RoundTrips(k.alpha_g1_beta_g2.c1, "Fq6")
           /\ RoundTrips(k.vk.beta_g2, "G2Affine")
           /\ RoundTrips(k.vk.beta_g2.y, "Fq2")
           /\ RoundTrips(k.vk.alpha_g1, "G1Affine")
           /\ \A i \in 1..Len(k.vk.gamma_abc_g1) :
                 RoundTrips(k.vk.gamma_abc_g1[i], "G1Affine")
           /\ RoundTrips(k.vk.alpha_g1.x, "BigInteger256")
           /\ RoundTrips([c0 |-> k.vk.alpha_g1.y], "Fq")

\* a prepared key with several IC points and an empty ell_coeffs was read back
C10_Witness ==
    /\ pc = "loaded"
    /\ loaded.kind = "Ok"
    /\ Len(loaded.val.vk.gamma_abc_g1) >= 2
    /\ loaded.val.gamma_g2_neg_pc.ell_coeffs = <<>>
    /\ Len(loaded.val.delta_g2_neg_pc.ell_coeffs) >= 2

\* C11: decoding a byte string whose length does not match the encoding
\* of a prepared key (a strict prefix of the encoding, the encoding
\* followed by extra bytes, or one with a sequence length prefix larger
\* than the remaining data) fails with an error value and yields no value.
C11_LengthMismatchFails ==
    pc = "damaged" =>
        /\ Len(stored) # Len(Ser_PreparedVerifyingKey(pvk.val))
              \/ damage.f = "length"
        /\ loaded.kind = "Err"
        /\ loaded.val \in {"Unexpected length of input", "Not all bytes read"}

\* an encoding followed by extra bytes has been refused
C11_Witness ==
    /\ pc = "damaged"
    /\ damage.f = "extra"
    /\ SubSeq(stored, 1, Len(stored) - damage.n) = Ser_PreparedVerifyingKey(pvk.val)
    /\ loaded = Err("Not all bytes read")

\* C12: the binary codec and the limb wrappers reduce and truncate
\* nothing: decoding a field element whose limbs encode an integer not
\* below the modulus succeeds and yields exactly those limbs, and
\* converting it to the library type and back returns the same limbs.
C12_NoReduction ==
    pc = "unreduced" =>
        LET l == UnreducedLimbs[damage.n]
            x == BigInteger256_new(l)
        IN /\ ~BelowModulus(l, QMod)
           /\ loaded.kind = "Ok"
           /\ loaded.val = [pvk.val EXCEPT !.vk.alpha_g1.x = x]
           /\ try_from_slice(Ser_Fq([c0 |-> x]), "Fq") = Ok([c0 |-> x])
           /\ BigInteger256_from_ark(ark_BigInteger256_from(x)) = x
           /\ Fq_from_ark(ark_Fq_from([c0 |-> x])) = [c0 |-> x]
           /\ G1Affine_from_ark(ark_G1Affine_from(loaded.val.vk.alpha_g1))
                 = loaded.val.vk.alpha_g1
           /\ PreparedVerifyingKey_from_ark(ark_PreparedVerifyingKey_from(loaded.val))
                 = loaded.val

\* a key whose alpha_g1.x has every limb at its maximum has been read
C12_Witness ==
    /\ pc = "unreduced"
    /\ loaded.kind = "Ok"
    /\ loaded.val.vk.alpha_g1.x.val = <<LimbBase - 1, LimbBase - 1, LimbBase - 1, LimbBase - 1>>
    /\ loaded.val.vk.alpha_g1.x # pvk.val.vk.alpha_g1.x

\* do the G1Affine values p and q denote the same point: both the point at
\* infinity, or both finite with the same residues as coordinates
SamePoint(p, q) ==
    \/ p.infinity /\ q.infinity
    \/ /\ ~p.infinity /\ ~q.infinity
       /\ LimbsMod(p.x.val, QMod) = LimbsMod(q.x.val, QMod)
       /\ LimbsMod(p.y.val, QMod) = LimbsMod(q.y.val, QMod)

\* C13 as stated: equality of the typed values, and of their binary forms,
\* coincides with equality of the mathematical values they represent: two
\* points with infinity = true are equal whatever their x and y, two field
\* elements are equal exactly when they denote the same residue, and no
\* value has two binary forms.
C13_Original ==
    pc = "unreduced" =>
        LET p == pvk.val.vk.alpha_g1
            q == loaded.val.vk.alpha_g1
        IN /\ SamePoint(p, q) <=> p = q
           /\ SamePoint(p, q) <=> Ser_G1Affine(p) = Ser_G1Affine(q)

\* the limbs of the integer the decimal string d denotes modulo QMod
ValueLimbs(d) == IntToLimbs(FromStrValue(d, QMod))

\* the limbs of the Montgomery form of that integer: d * R modulo QMod,
\* R = LimbBase^NumLimbs
MontgomeryLimbs(d) == IntToLimbs((FromStrValue(d, QMod) * MontR(QMod)) % QMod)

\* C14 as stated: in every module, the limbs stored for a base-field
\* element parsed from a decimal string d are the little-endian digits
\* of the integer d mod p; the decimal "1" is stored as limbs [1, 0, 0, 0].
C14_Original ==
    (pc \in {"prepared", "vk_prepared"} /\ pvk.kind = "Ok") =>
        /\ \A i \in 1..Len(vkey.val.ic) :
              vkey.val.ic[i][3] = <<"1">> =>
                 /\ pvk.val.vk.gamma_abc_g1[i].x.val = ValueLimbs(vkey.val.ic[i][1])
                 /\ pvk.val.vk.gamma_abc_g1[i].y.val = ValueLimbs(vkey.val.ic[i][2])
        /\ vkey.val.vk_beta_2[3] = << <<"1">>, <<"0">> >> =>
              /\ pvk.val.vk.beta_g2.x.c0.val = ValueLimbs(vkey.val.vk_beta_2[1][1])
              /\ pvk.val.vk.beta_g2.x.c1.val = ValueLimbs(vkey.val.vk_beta_2[1][2])

\* C14 amended: the limbs stored for a base-field element parsed from a
\* decimal string d are the little-endian digits of an integer in [0, p):
\* of the Montgomery form d * R mod p in the near and verifier modules, and
\* in the verification_key module for the coordinates of G2 points; of d mod p in
\* the verification_key module for the coordinates of G1 points.  The
\* decimal "1" is stored as the limbs of R mod p in the near module and as
\* [1, 0, 0, 0] for a G1 coordinate in the verification_key module.
C14_Amended ==
    (pc \in {"prepared", "vk_prepared"} /\ pvk.kind = "Ok") =>
        /\ \A i \in 1..Len(vkey.val.ic) :
              vkey.val.ic[i][3] = <<"1">> =>
                 LET x == pvk.val.vk.gamma_abc_g1[i].x.val
                     y == pvk.val.vk.gamma_abc_g1[i].y.val
                 IN /\ BelowModulus(x, QMod) /\ BelowModulus(y, QMod)
                    /\ pc = "prepared" =>
                          /\ x = MontgomeryLimbs(vkey.val.ic[i][1])
                          /\ y = MontgomeryLimbs(vkey.val.ic[i][2])
                    /\ pc = "vk_prepared" =>
                          /\ x = ValueLimbs(vkey.val.ic[i][1])
                          /\ y = ValueLimbs(vkey.val.ic[i][2])
                          /\ vkey.val.ic[i][1] = <<"1">> => x = <<1, 0, 0, 0>>
        /\ vkey.val.vk_beta_2[3] = << <<"1">>, <<"0">> >> =>
              /\ pvk.val.vk.beta_g2.x.c0.val = MontgomeryLimbs(vkey.val.vk_beta_2[1][1])
              /\ pvk.val.vk.beta_g2.x.c1.val = MontgomeryLimbs(vkey.val.vk_beta_2[1][2])

\* the near module has stored the decimal "1" as limbs other than [1, 0, 0, 0]
C14_Witness ==
    /\ pc = "prepared"
    /\ pvk.kind = "Ok"
    /\ Len(vkey.val.ic) >= 1
    /\ vkey.val.ic[1] = << <<"1">>, <<"2">>, <<"1">> >>
    /\ pvk.val.vk.gamma_abc_g1[1].x.val = MontgomeryLimbs(<<"1">>)
    /\ pvk.val.vk.gamma_abc_g1[1].x.val # <<1, 0, 0, 0>>

\* C15: get_prepared_verifying_key preserves the verifying key it is given.
\* The vk field of the result holds, for alpha_g1, beta_g2, gamma_g2,
\* delta_g2 and every gamma_abc_g1[i], the point parsed from vk_alpha_1,
\* vk_beta_2, vk_gamma_2, vk_delta_2 and IC[i], gamma_abc_g1 is as long as
\* IC, and for a G1 input with z = "1" the stored point has infinity = false
\* and x, y that denote the first two decimal strings.
C15_KeyPreserved ==
    (pc \in {"prepared", "vk_prepared"} /\ pvk.kind = "Ok") =>
        LET src == vkey.val
            vk == pvk.val.vk
            g1(p) == IF pc = "prepared" THEN G1Affine_from_ark(p)
                     ELSE vk_G1Affine_from_ark(p)
            value(l) == IF pc = "prepared" THEN FromMont(l, QMod)
                        ELSE LimbsMod(l, QMod)
        IN /\ vk.alpha_g1 = g1(g1_from_str(src.vk_alpha_1))
           /\ vk.beta_g2 = G2Affine_from_ark(g2_from_str(src.vk_beta_2))
           /\ vk.gamma_g2 = G2Affine_from_ark(g2_from_str(src.vk_gamma_2))
           /\ vk.delta_g2 = G2Affine_from_ark(g2_from_str(src.vk_delta_2))
           /\ Len(vk.gamma_abc_g1) = Len(src.ic)
           /\ \A i \in 1..Len(src.ic) :
                 /\ vk.gamma_abc_g1[i] = g1(g1_from_str(src.ic[i]))
                 /\ src.ic[i][3] = <<"1">> =>
                       /\ vk.gamma_abc_g1[i].infinity = FALSE
                       /\ value(vk.gamma_abc_g1[i].x.val) = FromStrValue(src.ic[i][1], QMod)
                       /\ value(vk.gamma_abc_g1[i].y.val) = FromStrValue(src.ic[i][2], QMod)
           /\ pc = "prepared" =>
                 /\ ark_G1Affine_from(vk.alpha_g1) = g1_from_str(src.vk_alpha_1)
                 /\ ark_G2Affine_from(vk.gamma_g2) = g2_from_str(src.vk_gamma_2)

\* a key with two IC entries, the first with z = "1", has been prepared
C15_Witness ==
    /\ pc = "prepared"
    /\ pvk.kind = "Ok"
    /\ Len(vkey.val.ic) >= 2
    /\ vkey.val.ic[1][3] = <<"1">>
    /\ pvk.val.vk.gamma_abc_g1[1].infinity = FALSE
    /\ pvk.val.vk.gamma_g2.infinity = FALSE

\* the G1 entries of the key JSON src with their stored points in vk
G1Entries(src, vk) ==
    {<< src.vk_alpha_1, vk.alpha_g1 >>}
        \cup {<< src.ic[i], vk.gamma_abc_g1[i] >> : i \in 1..Len(src.ic)}

\* the G2 entries of the key JSON src with their stored points in vk
G2Entries(src, vk) ==
    {<< src.vk_beta_2, vk.beta_g2 >>, << src.vk_gamma_2, vk.gamma_g2 >>,
     << src.vk_delta_2, vk.delta_g2 >>}

\* the z coordinate of a projective input is written as zero
G1ZIsZero(g1) == FromStrValue(g1[3], QMod) = 0
G2ZIsZero(g2) == FromStrValue(g2[3][1], QMod) = 0 /\ FromStrValue(g2[3][2], QMod) = 0

\* the integer the stored limbs of a G1 coordinate denote in the module at hand
StoredG1Value(l) == IF pc = "vk_prepared" THEN LimbsMod(l.val, QMod) ELSE FromMont(l.val, QMod)

\* the integer the stored limbs of a G2 coordinate component denote
StoredG2Value(l) == FromMont(l.val, QMod)

\* C16 as stated: a projective G1 or G2 input whose z coordinate is 0 is
\* converted to a point with infinity = true and x = y = 0.
C16_Original ==
    (pc \in {"prepared", "vk_prepared"} /\ pvk.kind = "Ok") =>
        /\ \A e \in G1Entries(vkey.val, pvk.val.vk) :
              G1ZIsZero(e[1]) =>
                 /\ e[2].infinity = TRUE
                 /\ StoredG1Value(e[2].x) = 0
                 /\ StoredG1Value(e[2].y) = 0
        /\ \A e \in G2Entries(vkey.val, pvk.val.vk) :
              G2ZIsZero(e[1]) =>
                 /\ e[2].infinity = TRUE
                 /\ StoredG2Value(e[2].x.c0) = 0 /\ StoredG2Value(e[2].x.c1) = 0
                 /\ StoredG2Value(e[2].y.c0) = 0 /\ StoredG2Value(e[2].y.c1) = 0

\* C16 amended: a projective G1 or G2 input whose z coordinate is 0 is
\* converted, whatever its x and y are, to the library's point at infinity:
\* infinity = true, x = 0 and y = 1 (for G2, x = (0, 0) and y = (1, 0)).
C16_Amended ==
    (pc \in {"prepared", "vk_prepared"} /\ pvk.kind = "Ok") =>
        /\ \A e \in G1Entries(vkey.val, pvk.val.vk) :
              G1ZIsZero(e[1]) =>
                 /\ e[2].infinity = TRUE
                 /\ StoredG1Value(e[2].x) = 0
                 /\ StoredG1Value(e[2].y) = 1
        /\ \A e \in G2Entries(vkey.val, pvk.val.vk) :
              G2ZIsZero(e[1]) =>
                 /\ e[2].infinity = TRUE
                 /\ StoredG2Value(e[2].x.c0) = 0 /\ StoredG2Value(e[2].x.c1) = 0
                 /\ StoredG2Value(e[2].y.c0) = 1 /\ StoredG2Value(e[2].y.c1) = 0

\* a key whose vk_alpha_1 has nonzero x and z = 0 has been prepared
C16_Witness ==
    /\ pc = "prepared"
    /\ pvk.kind = "Ok"
    /\ G1ZIsZero(vkey.val.vk_alpha_1)
    /\ FromStrValue(vkey.val.vk_alpha_1[1], QMod) # 0
    /\ G2ZIsZero(vkey.val.vk_beta_2)
    /\ pvk.val.vk.alpha_g1.infinity = TRUE
    /\ StoredG1Value(pvk.val.vk.alpha_g1.y) = 1

\* the natural number a string of digits spells
RECURSIVE NatOf(_)
NatOf(s) == IF Len(s) = 0 THEN 0
            ELSE NatOf(SubSeq(s, 1, Len(s) - 1)) * 10 + to_digit(s[Len(s)])

\* a non-empty string of digits
AllDigits(s) == Len(s) > 0 /\ \A i \in 1..Len(s) : IsDigit(s[i])

\* the key forms that leave vk_alpha_1 three literals and change no other entry's spelling
C17KeyForms == {"plain", "plusq", "literal", "zero"}

\* C17 as stated: decimal-to-field conversion reduces modulo the field
\* modulus.  For every digit string d the decimals of d and of d + p convert
\* to the same element (p the base-field modulus for fq_from_str, the
\* scalar-field modulus for fr_from_str), and every all-digit string
\* converts successfully.
C17_Original ==
    /\ (pc \in {"prepared", "vk_prepared"} /\ kcase.fm.f \in C17KeyForms) =>
          LET s == vkey.val.vk_alpha_1[1]
          IN AllDigits(s) =>
                /\ pvk.kind = "Ok"
                /\ FqVal(fq_from_str(s)) = NatOf(s) % QMod
                /\ fq_from_str(Dec(NatOf(s) + QMod)) = fq_from_str(s)
    /\ (pc = "done" /\ icase.fm.f = "plain" /\ res.kind \in {"Ok", "Err"}) =>
          \A i \in 1..Len(icase.p) :
             LET s == Dec(icase.p[i])
             IN /\ FrVal(fr_from_str(s)) = NatOf(s) % RMod
                /\ fr_from_str(Dec(NatOf(s) + RMod)) = fr_from_str(s)

Expected(kc, pcs, ics) ==
    IF pcs.fm.f \in {"notjson", "missing"} THEN Err(ParseError("proof"))
    ELSE IF /\ kc.fm.f \in KeySpellings
            /\ pcs.fm.f \in ProofSpellings
            /\ ics.fm.f = "plain"
            /\ Len(ics.p) + 1 = Len(kc.p.ic)
         THEN Ok(Satisfies(kc.p, pcs.p, ics.p))
    ELSE None

\* C19: a prepared verifying key is read-only after creation.  After any
\* sequence of verify_proof calls against it (accepting, rejecting or
\* failing, in any order) the persisted prepared key is the one created, and
\* the outcome of verifying a (proof, public inputs) pair is the one that
\* pair has on its own, whichever calls came before.
C19_ReadOnly ==
    pc = "done" =>
        /\ stored = Ser_PreparedVerifyingKey(pvk.val)
        /\ loaded = Ok(pvk.val)
        /\ try_from_slice(stored, "PreparedVerifyingKey") = loaded
        /\ Expected(kcase, pcase, icase) # None => res = Expected(kcase, pcase, icase)

\* an accepting call has been made after a rejecting one
C19_Witness ==
    /\ pc = "done"
    /\ calls >= 2
    /\ prev.res = Ok(FALSE)
    /\ res = Ok(TRUE)
    /\ stored = Ser_PreparedVerifyingKey(pvk.val)

\* the proof text was written so that it is no proof object: no JSON, or a
\* required key left out
MalformedProof(pcs) == pcs.fm.f \in {"notjson", "missing"}

\* the public-input text was written so that it is no array of strings: no
\* JSON, an object, or an array with a number in it
MalformedInputs(ics) == ics.fm.f \in {"notjson", "object", "number"}

\* C20: in verify_proof, a proof JSON or public-input JSON that is malformed
\* (not parseable into the expected schema) makes the call return an error
\* value that names the malformed artifact, with the pairing check never
\* started; a malformed artifact never produces Ok(true) or Ok(false).
C20_MalformedRejected ==
    pc = "done" =>
        /\ MalformedProof(pcase) =>
              /\ res = Err("Failed to parse circom proof json")
              /\ reached = "parse_circom_proof"
        /\ (~MalformedProof(pcase) /\ MalformedInputs(icase)) =>
              /\ res = Err("Failed to parse circom public inputs json")
              /\ reached = "parse_public_inputs"
        /\ (MalformedProof(pcase) \/ MalformedInputs(icase)) =>
              /\ res.kind = "Err"
              /\ reached # "ark_groth16::verify_proof"

\* a call with a well-formed proof and malformed public inputs has returned
C20_Witness ==
    /\ pc = "done"
    /\ ~MalformedProof(pcase)
    /\ pcase.fm.f = "plain"
    /\ MalformedInputs(icase)
    /\ res = Err("Failed to parse circom public inputs json")

\* the strings the public-input text of ics was written from, where it was
\* written as an array of strings
WrittenInputs(ics) ==
    LET plain == [i \in 1..Len(ics.p) |-> Dec(ics.p[i])]
    IN IF ics.fm.f = "literal"
       THEN [plain EXCEPT ![ics.fm.n] = BadLiterals[1 + ((ics.fm.n - 1) % Len(BadLiterals))]]
       ELSE plain

\* C21: parse_public_inputs on a JSON array of strings returns exactly those
\* strings, unchanged and in the same order, with the same length as the
\* array; a JSON text that is not a flat array of strings yields an error
\* value.
C21_InputsAsWritten ==
    pc = "done" =>
        LET r == parse_public_inputs(pub_inputs_str)
        IN IF icase.fm.f \in {"plain", "literal"}
           THEN /\ r.kind = "Ok"
                /\ Len(r.val) = Len(icase.p)
                /\ r.val = WrittenInputs(icase)
                /\ reached # "parse_public_inputs"
           ELSE /\ r = Err("Failed to parse circom public inputs json")
                /\ reached \in {"parse_circom_proof", "parse_public_inputs"}

\* a call whose public-input text is an array of two different strings has
\* gone past parse_public_inputs
C21_Witness ==
    /\ pc = "done"
    /\ icase.fm.f = "plain"
    /\ Len(icase.p) >= 2
    /\ icase.p[1] # icase.p[2]
    /\ reached = "ark_groth16::verify_proof"
    /\ parse_public_inputs(pub_inputs_str) = Ok(WrittenInputs(icase))

\* the key text t with vk_alphabeta_12 replaced by e
WithAlphaBeta(t, e) == JO([t.v EXCEPT !["vk_alphabeta_12"] = e])

\* C22: the vk_alphabeta_12 field of the verifying-key JSON is ignored.  The
\* prepared key's alpha_g1_beta_g2 is the pairing of the points of
\* vk_alpha_1 and vk_beta_2, so key JSONs that differ only in the contents
\* of vk_alphabeta_12 yield the same prepared key and the same verification
\* results.
C22_AlphaBetaIgnored ==
    /\ (pc = "prepared" /\ vkey.kind = "Ok") =>
          /\ \A k \in 0..(RMod - 1) :
                LET r == parse_verification_key(WithAlphaBeta(vkey_str, AlphaBetaJson(k)))
                IN r.kind = "Ok" /\ PrepareOutcome(r.val) = pvk
          /\ pvk.kind = "Ok" =>
                pvk.val.alpha_g1_beta_g2
                   = Fq12_from_ark(ark_pairing(g1_from_str(vkey.val.vk_alpha_1),
                                               g2_from_str(vkey.val.vk_beta_2)))
    /\ (pc = "done" /\ kcase.fm.f = "alphabeta") =>
          LET r == parse_verification_key(VkeyText(kcase.p, Plain))
          IN /\ PrepareOutcome(r.val) = pvk
             /\ verify_proof(PrepareOutcome(r.val).val, proof_str, pub_inputs_str) = res

\* a key whose vk_alphabeta_12 is not the pairing of vk_alpha_1 and
\* vk_beta_2 has accepted a proof
C22_Witness ==
    /\ pc = "done"
    /\ kcase.fm.f = "alphabeta"
    /\ vkey.val.vk_alphabeta_12
          # parse_verification_key(VkeyText(kcase.p, Plain)).val.vk_alphabeta_12
    /\ res = Ok(TRUE)

AccDlog(gamma_abc_g1, xs) ==
    LET RECURSIVE sum(_)
        sum(i) == IF i = 0 THEN DlogG1(gamma_abc_g1[1])
                  ELSE (sum(i - 1) + FromStrValue(xs[i], RMod) * DlogG1(gamma_abc_g1[i + 1])) % RMod
    IN sum(Len(xs))

\* C24: verify_proof returns true exactly when
\* e(proof.a, proof.b) * e(acc, -gamma_g2) * e(proof.c, -delta_g2) equals the
\* prepared key's alpha_g1_beta_g2, where acc is gamma_abc_g1[0] plus the sum
\* over i of public_inputs[i] times gamma_abc_g1[i+1]: public input i is
\* paired with gamma_abc_g1[i+1] in list order.
C24_Equation ==
    (pc = "done" /\ res.kind = "Ok") =>
        LET key == ark_PreparedVerifyingKey_from(loaded.val)
            proof == ark_Proof_from_json(parse_circom_proof(proof_str).val)
            xs == parse_public_inputs(pub_inputs_str).val
            acc == AccDlog(key.vk.gamma_abc_g1, xs)
            ab == DlogG1(proof.a) * DlogG2(proof.b)
            ag == acc * (RMod - DlogG2(key.vk.gamma_g2))
            cd == DlogG1(proof.c) * (RMod - DlogG2(key.vk.delta_g2))
        IN /\ Len(xs) + 1 = Len(key.vk.gamma_abc_g1)
           /\ res.val = (GTElem(ab + ag + cd) = key.alpha_g1_beta_g2)

\* a proof has been accepted for two different public inputs
C24_Witness ==
    /\ pc = "done"
    /\ res = Ok(TRUE)
    /\ icase.fm.f = "plain"
    /\ Len(icase.p) >= 2
    /\ icase.p[1] % RMod # icase.p[2] % RMod
    /\ pcase.p.a # 0
    /\ pcase.p.c # 0

\* C25: in the near module and in the verifier module the conversions
\* between each local type and its library counterpart are mutually inverse:
\* for every value of BigInteger256, Fr, Fq, Fq2, Fq6, Fq12, G1Affine,
\* G2Affine, G2Prepared, VerifyingKey and PreparedVerifyingKey, local to
\* library to local returns the original value.
C25_LocalRoundTrip ==
    (pc \in {"loaded", "unreduced"} /\ loaded.kind = "Ok") =>
        LET k == loaded.val
            b == k.vk.alpha_g1.x
        IN /\ BigInteger256_from_ark(ark_BigInteger256_from(b)) = b
           /\ Fr_from_ark(ark_Fr_from([c0 |-> b])) = [c0 |-> b]
           /\ Fq_from_ark(ark_Fq_from([c0 |-> b])) = [c0 |-> b]
           /\ Fq2_from_ark(ark_Fq2_from(k.vk.beta_g2.x)) = k.vk.beta_g2.x
           /\ Fq6_from_ark(ark_Fq6_from(k.alpha_g1_beta_g2.c0)) = k.alpha_g1_beta_g2.c0
           /\ Fq12_from_ark(ark_Fq12_from(k.alpha_g1_beta_g2)) = k.alpha_g1_beta_g2
           /\ \A i \in 1..Len(k.vk.gamma_abc_g1) :
                 G1Affine_from_ark(ark_G1Affine_from(k.vk.gamma_abc_g1[i])) = k.vk.gamma_abc_g1[i]
           /\ G1Affine_from_ark(ark_G1Affine_from(k.vk.alpha_g1)) = k.vk.alpha_g1
           /\ G2Affine_from_ark(ark_G2Affine_from(k.vk.gamma_g2)) = k.vk.gamma_g2
           /\ G2Prepared_from_ark(ark_G2Prepared_from_local(k.gamma_g2_neg_pc)) = k.gamma_g2_neg_pc
           /\ G2Prepared_from_ark(ark_G2Prepared_from_local(k.delta_g2_neg_pc)) = k.delta_g2_neg_pc
           /\ VerifyingKey_from_ark(ark_VerifyingKey_from(k.vk)) = k.vk
           /\ PreparedVerifyingKey_from_ark(ark_PreparedVerifyingKey_from(k)) = k

\* a key with limbs at or above the modulus, two different coefficient
\* triples and more than one gamma_abc_g1 point has been converted
C25_Witness ==
    /\ pc = "unreduced"
    /\ loaded.kind = "Ok"
    /\ ~BelowModulus(loaded.val.vk.alpha_g1.x.val, QMod)
    /\ Len(loaded.val.vk.gamma_abc_g1) >= 2
    /\ Len(loaded.val.gamma_g2_neg_pc.ell_coeffs) >= 2
    /\ loaded.val.gamma_g2_neg_pc.ell_coeffs[1] # loaded.val.gamma_g2_neg_pc.ell_coeffs[2]
    /\ PreparedVerifyingKey_from_ark(ark_PreparedVerifyingKey_from(loaded.val)) = loaded.val

\* C26 as stated: in the verification_key module, converting a library
\* PreparedVerifyingKey to the local type and back yields the original
\* library key: every component, the Fq2 coordinates of beta_g2, gamma_g2
\* and delta_g2, alpha_g1_beta_g2 and the ell_coeffs included, is converted
\* with the same limb interpretation in both directions as the G1
\* coordinates are.
C26_Original ==
    (pc = "vk_prepared" /\ pvk.kind = "Ok") =>
        LET lib == ark_prepare_verifying_key(ark_VerifyingKey_from_json(vkey.val))
            local == vk_PreparedVerifyingKey_from_ark(lib)
        IN /\ local = pvk.val
           /\ ~Aborts_ark_from_repr(local.vk.beta_g2.x.c0.val)
           /\ vk_ark_PreparedVerifyingKey_from(local) = lib

\* C27: in the verifier module the local VerifyingKey built directly from
\* the verification key JSON equals the local conversion of the library
\* VerifyingKey built from the same JSON, and the four fields of the
\* VerifyingKeyPart1 built from that JSON are that key's alpha_g1, beta_g2,
\* gamma_g2 and delta_g2.
C27_DirectEqualsConverted ==
    (pc = "verifier_prepared" /\ pvk.kind = "Ok") =>
        LET direct == VerifyingKey_from_json(vkey.val)
            part1 == VerifyingKeyPart1_from_json(vkey.val)
        IN /\ direct = VerifyingKey_from_ark(ark_VerifyingKey_from_json(vkey.val))
           /\ pvk.val.vk = direct
           /\ DOMAIN part1 = {"alpha_g1", "beta_g2", "gamma_g2", "delta_g2"}
           /\ \A f \in DOMAIN part1 : part1[f] = direct[f]

\* a key with different gamma_g2 and delta_g2 and at least two IC points
\* has been built directly from its JSON and prepared
C27_Witness ==
    /\ pc = "verifier_prepared"
    /\ pvk.kind = "Ok"
    /\ Len(vkey.val.ic) >= 2
    /\ pvk.val.vk = VerifyingKey_from_json(vkey.val)
    /\ pvk.val.vk.gamma_g2 # pvk.val.vk.delta_g2
    /\ VerifyingKeyPart1_from_json(vkey.val).gamma_g2 = pvk.val.vk.gamma_g2

\* C28: the verifier module's get_prepared_verifying_key, applied to the
\* local VerifyingKey built from a verification key JSON, returns the same
\* PreparedVerifyingKey, field for field and limb for limb, as the near
\* module's get_prepared_verifying_key returns for that JSON.
C28_SamePreparedKey ==
    (pc = "verifier_prepared" /\ pvk.kind = "Ok") =>
        /\ ~Aborts_get_prepared_verifying_key(vkey.val)
        /\ pvk.val = get_prepared_verifying_key(vkey.val)

\* the verifier module has prepared a key with at least two IC points, and
\* the near module prepares the same key from the JSON
C28_Witness ==
    /\ pc = "verifier_prepared"
    /\ pvk.kind = "Ok"
    /\ Len(pvk.val.vk.gamma_abc_g1) >= 2
    /\ Len(pvk.val.gamma_g2_neg_pc.ell_coeffs) >= 2
    /\ pvk.val = get_prepared_verifying_key(vkey.val)

\* C29: verify_proof checks its inputs in a fixed order: the proof JSON is
\* parsed first, then the public-input JSON, then every public-input string
\* is converted to a scalar, and only then is the arity checked and the
\* pairing evaluated.  When both texts are malformed the error is
\* "Failed to parse circom proof json", when only the public inputs are
\* malformed it is "Failed to parse circom public inputs json", and no
\* public-input string is converted unless both texts parsed.
C29_CheckOrder ==
    pc = "done" =>
        /\ (MalformedProof(pcase) /\ MalformedInputs(icase)) =>
              /\ res.kind = "Err"
              /\ res.val = "Failed to parse circom proof json"
        /\ (~MalformedProof(pcase) /\ MalformedInputs(icase)) =>
              /\ res.kind = "Err"
              /\ res.val = "Failed to parse circom public inputs json"
        /\ reached \in {"fr_from_str", "proof.into", "ark_groth16::verify_proof"} =>
              /\ ~MalformedProof(pcase)
              /\ ~MalformedInputs(icase)
        /\ (~MalformedProof(pcase) /\ icase.fm.f = "literal") =>
              /\ reached = "fr_from_str"
              /\ res.kind = "Panic"
        /\ reached = "ark_groth16::verify_proof" =>
              /\ icase.fm.f = "plain"
              /\ pcase.fm.f \notin {"notjson", "missing", "literal"}
        /\ (res.kind = "Panic" /\ reached = "ark_groth16::verify_proof") =>
              Len(icase.p) + 1 # Len(loaded.val.vk.gamma_abc_g1)

\* a call with both texts malformed has returned the error of the proof
C29_Witness ==
    /\ pc = "done"
    /\ MalformedProof(pcase)
    /\ MalformedInputs(icase)
    /\ reached = "parse_circom_proof"
    /\ res = Err("Failed to parse circom proof json")

\* C30: although its contents are never used, vk_alphabeta_12 is a
\* required key: parse_verification_key returns an error for a
\* verifying-key JSON that is complete except for a missing
\* vk_alphabeta_12, in the same way as for any other missing key (protocol,
\* curve, nPublic, vk_alpha_1, vk_beta_2, vk_gamma_2, vk_delta_2, IC).
C30_AlphaBetaRequired ==
    (pc \in {"parsed", "vk_parsed"} /\ kcase.fm.f = "missing") =>
        LET message == IF pc = "parsed" THEN "Failed to parse circom verification key json"
                       ELSE "Failed to parse verification key json"
            without(k) == VkeyText(kcase.p, Form("missing", k))
            outcome(k) == IF pc = "parsed" THEN parse_verification_key(without(k))
                          ELSE vk_parse_verification_key(without(k))
        IN /\ DOMAIN vkey_str.v = {VkeyKeys[k] : k \in 1..Len(VkeyKeys)} \ {VkeyKeys[kcase.fm.n]}
           /\ vkey.kind = "Err"
           /\ vkey.val = message
           /\ pvk = None
           /\ \A k \in 1..Len(VkeyKeys) :
                 /\ outcome(k).kind = "Err"
                 /\ outcome(k).val = message

\* a module has rejected a key that lacks vk_alphabeta_12 and nothing else
C30_Witness ==
    /\ pc \in {"parsed", "vk_parsed"}
    /\ vkey_str.t = "o"
    /\ DOMAIN vkey_str.v = {VkeyKeys[k] : k \in 1..Len(VkeyKeys)} \ {"vk_alphabeta_12"}
    /\ vkey.kind = "Err"
    /\ vkey.val = (IF pc = "parsed" THEN "Failed to parse circom verification key json"
                   ELSE "Failed to parse verification key json")

====
